---- MODULE Spec2Model ----
(***************************************************************************)
(* Photo Client Messenger: the relational store (users, clients, messages, *)
(* usage, link tokens), the plan-limit middlewares, the metered AI routes  *)
(* and the Telegram bridge, as a state machine.  One action per route or   *)
(* bot handler; a handler that awaits an external provider is split at     *)
(* the await, because other handlers run while it is suspended.            *)
(***************************************************************************)
EXTENDS Integers, Sequences, FiniteSets, TLC

(* ------------------------------------------------------------------ *)
(* Program constants                                                   *)
(* ------------------------------------------------------------------ *)

\* JavaScript null / undefined (row ids and chat ids are positive).
NULL == 0

\* JavaScript Infinity: larger than every count the model reaches.
Infinity == 999999

PLAN_LIMITS ==
  [ free  |-> [clients |-> 5, messagesPerClient |-> 50,
               aiRespond |-> 20, aiImprove |-> 30, transcribe |-> 10],
    paid  |-> [clients |-> 25, messagesPerClient |-> 250,
               aiRespond |-> 200, aiImprove |-> 300, transcribe |-> 100],
    power |-> [clients |-> Infinity, messagesPerClient |-> Infinity,
               aiRespond |-> Infinity, aiImprove |-> Infinity,
               transcribe |-> Infinity] ]

Plans == {"free", "paid", "power"}

AITypes == {"aiRespond", "aiImprove", "transcribe"}

\* Link tokens expire fifteen minutes after issuance (time is in minutes).
LinkTokenTTL == 15

MinutesPerDay == 24 * 60

\* Calendar months are modelled with a uniform length, in minutes.
MinutesPerMonth == 30 * MinutesPerDay

\* Offsets of the server's local time zone from UTC, in minutes east.
TimeZones == {-120, 0, 120}

(* ------------------------------------------------------------------ *)
(* Bounds of the model                                                 *)
(* ------------------------------------------------------------------ *)

\* Metered HTTP requests received in a run.
MaxReqs == 2

\* Calendar months the clock passes through.
MaxMonth == 2

\* How far below its ceiling a persisted usage counter may start.
MaxSlack == 1

\* Clients created in a run (AUTOINCREMENT never reuses an id).
MaxNewClients == 2

\* /respond and /improve handlers suspended at an await at the same time.
MaxBotTasks == 1

\* Messages a conversation gains while exploring (a reply logged by /log may follow).
MaxMsgs == 1

\* Link tokens issued in a run.
MaxTokens == 2

\* Minutes the clock runs past its start.
MaxElapsed == 32

\* Hours on either side of a UTC month boundary the calendar clock covers.
MaxHours == 3

\* reset-password requests in a run.
MaxResets == 2

UserIds == {1, 2}

ChatIds == {1, 2}

\* The highest client id of a persisted database: one below the largest
\* finite client ceiling, so that a seeded account can sit just under it.
SeedTop == PLAN_LIMITS.paid.clients - 1

MaxClientId == SeedTop + MaxNewClients

ClientIds == 1..MaxClientId

TaskIds == 1..MaxBotTasks

\* Client names as typed; toLowerCase maps "Ann" to "ann".
Names == {"Ann", "ann", "Bob", "Cy"}

Months == 1..MaxMonth

TokenIds == 1..MaxTokens

\* The clock starts sixteen minutes before midnight (UTC), so that expiry
\* instants fall on both sides of a date change.
ClockStart == MinutesPerDay - LinkTokenTTL - 1

\* A statement of the /start transaction that throws (an I/O error), if any.
Faults == {"none", "markUsed", "setTelegramChat"}

ReqIds == 1..MaxReqs

VARIABLES
  users,          \* table users: id -> [plan, telegram_chat_id]
  clients,        \* table clients: id -> [user_id, name]
  nextClientId,   \* AUTOINCREMENT of clients
  messages,       \* table messages: client_id -> sequence of [sender, text]
  savedResponses, \* table saved_responses: user_id -> number of rows
  usage,          \* table usage: <<user_id, month>> -> the three counters
  linkTokens,     \* table telegram_link_tokens: token -> [user_id, expires_at, used]
  nextToken,      \* the next fresh random token
  sessions,       \* the bot's in-memory Map: chat id -> [activeClientId, lastDraft]
  reqs,           \* metered HTTP requests: slot -> request and, once done, its response
  botTasks,       \* /respond and /improve handlers suspended at an await
  now,            \* wall clock, minutes
  month,          \* wall clock, calendar month
  env,            \* process.env: which provider keys are set
  botUsername,    \* _botUsername, NULL until getMe resolves
  lastStart,      \* the last /start handled: [chat, token, outcome, ...]
  passwordResetTokens, \* table password_reset_tokens: token -> [user_id, expires_at, used]
  nextResetToken, \* the next fresh random reset token
  passwordHash,   \* column users.password_hash: id -> hash
  resets          \* reset-password requests: suspended at bcrypt, or answered

vars == << users, clients, nextClientId, messages, savedResponses, usage,
           linkTokens, nextToken, sessions, reqs, botTasks, now, month,
           env, botUsername, lastStart,
           passwordResetTokens, nextResetToken, passwordHash, resets >>

\* The state of the password-reset flow.
authVars == << passwordResetTokens, nextResetToken, passwordHash, resets >>

(* ------------------------------------------------------------------ *)
(* db.ts: clients and messages                                         *)
(* ------------------------------------------------------------------ *)

\* SELECT * FROM clients WHERE user_id = ? ORDER BY id (the ids, ascending)
clients_findByUser(userId) == {id \in DOMAIN clients : clients[id].user_id = userId}

\* The lookup by id alone, whoever owns the client.
clients_findByIdAndUser_anyOwner(id, userId) ==
  IF id \in DOMAIN clients THEN id ELSE NULL

\* SELECT * FROM clients WHERE id = ? AND user_id = ?
clients_findByIdAndUser(id, userId) ==
  IF id \in DOMAIN clients /\ clients[id].user_id = userId THEN id ELSE NULL

\* SELECT * FROM clients WHERE id = ?
clients_findById(id) == IF id \in DOMAIN clients THEN id ELSE NULL

clients_countByUser(userId) == Cardinality(clients_findByUser(userId))

messages_countByClient(clientId) ==
  IF clientId \in DOMAIN messages THEN Len(messages[clientId]) ELSE 0

(* ------------------------------------------------------------------ *)
(* db.ts: users' Telegram columns and telegram_link_tokens             *)
(* ------------------------------------------------------------------ *)

\* SELECT * FROM users WHERE telegram_chat_id = ?
users_findByTelegramChatId(chatId) ==
  LET found == {u \in DOMAIN users : users[u].telegram_chat_id = chatId}
  IN IF chatId # NULL /\ found # {} THEN CHOOSE u \in found : TRUE ELSE NULL

\* The UPDATE on a table without the unique index: it never fails.
users_setTelegramChat_noIndex(tbl, id, chatId) ==
  [ok |-> TRUE,
   table |-> [u \in DOMAIN tbl |->
                IF u = id THEN [tbl[u] EXCEPT !.telegram_chat_id = chatId]
                ELSE tbl[u]]]

\* UPDATE users SET telegram_chat_id = ?, telegram_username = ? WHERE id = ?
\* Fails on the unique index idx_users_telegram_chat_id when another row
\* already holds the chat id.
users_setTelegramChat(tbl, id, chatId) ==
  IF id \in DOMAIN tbl /\ \E u \in DOMAIN tbl : u # id /\ tbl[u].telegram_chat_id = chatId
  THEN [ok |-> FALSE, table |-> tbl]
  ELSE [ok |-> TRUE,
        table |-> [u \in DOMAIN tbl |->
                     IF u = id THEN [tbl[u] EXCEPT !.telegram_chat_id = chatId]
                     ELSE tbl[u]]]

\* The UPDATE that clears the chat without its WHERE clause.
users_clearTelegramChat_all(tbl, id) ==
  [u \in DOMAIN tbl |-> [tbl[u] EXCEPT !.telegram_chat_id = NULL]]

\* UPDATE users SET telegram_chat_id = NULL, telegram_username = NULL WHERE id = ?
users_clearTelegramChat(tbl, id) ==
  [u \in DOMAIN tbl |->
     IF u = id THEN [tbl[u] EXCEPT !.telegram_chat_id = NULL] ELSE tbl[u]]

\* The calendar date (UTC) of an instant.
DateOf(t) == t \div MinutesPerDay

\* expires_at < datetime('now') as SQLite evaluates it: expires_at is an ISO
\* string ("2026-02-18T12:00:00.000Z"), datetime('now') is
\* "2026-02-18 12:00:00", and the comparison is of text.  Equal dates are
\* decided by 'T' > ' ', so it holds exactly when the date of expires_at is
\* earlier than today's.
sqlExpired(expires_at, t) == DateOf(expires_at) < DateOf(t)

\* A DELETE FROM telegram_link_tokens without its WHERE clause.
deleteExpiredTelegramTokens_all(tbl) == [t \in {} |-> tbl[t]]

\* DELETE FROM telegram_link_tokens WHERE expires_at < datetime('now') OR used = 1
deleteExpiredTelegramTokens(tbl) ==
  LET keep == {t \in DOMAIN tbl : ~(sqlExpired(tbl[t].expires_at, now) \/ tbl[t].used)}
  IN [t \in keep |-> tbl[t]]

\* telegramLinkTokens.create(userId, token, expiresAt)
telegramLinkTokens_create(tbl, userId, token, expiresAt) ==
  deleteExpiredTelegramTokens(tbl)
    @@ (token :> [user_id |-> userId, expires_at |-> expiresAt, used |-> FALSE])

NoToken == [user_id |-> NULL, expires_at |-> 0, used |-> FALSE]

\* findByToken without its expiry test.
telegramLinkTokens_findByToken_noExpiry(token) ==
  IF token \in DOMAIN linkTokens /\ ~linkTokens[token].used
  THEN [found |-> TRUE, row |-> linkTokens[token]]
  ELSE [found |-> FALSE, row |-> NoToken]

\* findByToken whose SELECT lacks "AND used = 0".
telegramLinkTokens_findByToken_anyUsed(token) ==
  IF token \in DOMAIN linkTokens
  THEN IF linkTokens[token].expires_at < now
       THEN [found |-> FALSE, row |-> NoToken]
       ELSE [found |-> TRUE, row |-> linkTokens[token]]
  ELSE [found |-> FALSE, row |-> NoToken]

\* telegramLinkTokens.findByToken(token): the unused row, unless
\* new Date(expires_at) < new Date().
telegramLinkTokens_findByToken(token) ==
  IF token \in DOMAIN linkTokens /\ ~linkTokens[token].used
  THEN IF linkTokens[token].expires_at < now
       THEN [found |-> FALSE, row |-> NoToken]
       ELSE [found |-> TRUE, row |-> linkTokens[token]]
  ELSE [found |-> FALSE, row |-> NoToken]

\* UPDATE telegram_link_tokens SET used = 1 WHERE token = ?
telegramLinkTokens_markUsed(tbl, token) ==
  [t \in DOMAIN tbl |-> IF t = token THEN [tbl[t] EXCEPT !.used = TRUE] ELSE tbl[t]]

\* The two writes without a transaction: a failure of the second write
\* leaves the first in place.
linkTransaction_noRollback(token, userId, chatId, fault) ==
  LET marked == telegramLinkTokens_markUsed(linkTokens, token)
      bound == users_setTelegramChat(users, userId, chatId)
  IN IF fault = "markUsed"
     THEN [committed |-> FALSE, linkTokens |-> linkTokens, users |-> users]
     ELSE IF fault = "setTelegramChat" \/ ~bound.ok
     THEN [committed |-> FALSE, linkTokens |-> marked, users |-> users]
     ELSE [committed |-> TRUE, linkTokens |-> marked, users |-> bound.table]

\* db.transaction(() => { markUsed(token); setTelegramChat(user_id, chatId) })():
\* a statement that throws rolls both writes back and the exception leaves
\* the handler.
linkTransaction(token, userId, chatId, fault) ==
  LET marked == telegramLinkTokens_markUsed(linkTokens, token)
      bound == users_setTelegramChat(users, userId, chatId)
  IN IF fault = "markUsed" \/ fault = "setTelegramChat" \/ ~bound.ok
     THEN [committed |-> FALSE, linkTokens |-> linkTokens, users |-> users]
     ELSE [committed |-> TRUE, linkTokens |-> marked, users |-> bound.table]

(* ------------------------------------------------------------------ *)
(* db.ts: usage                                                        *)
(* ------------------------------------------------------------------ *)

getCurrentMonth == month

\* The month of the server's local calendar that holds the UTC instant t
\* (Date#getFullYear and Date#getMonth read the local time zone).
localMonth(t, tz) == (t + tz) \div MinutesPerMonth + 1

\* new Date(y, m + 1, 1).toISOString(): local midnight of the first day of
\* the local month after the current one, written as a UTC instant.
getNextMonthStart == getCurrentMonth * MinutesPerMonth - env.TZ

ZeroUsage == [ai_respond_count |-> 0, ai_improve_count |-> 0, transcribe_count |-> 0]

\* The insert as INSERT OR REPLACE: an existing row is written over with zeros.
upsertUsage_replace(tbl, userId, m) ==
  [k \in DOMAIN tbl \cup {<<userId, m>>} |->
     IF k = <<userId, m>> THEN ZeroUsage ELSE tbl[k]]

\* INSERT ... VALUES (?, ?, 0, 0, 0) ON CONFLICT(user_id, month) DO NOTHING
upsertUsage(tbl, userId, m) ==
  IF <<userId, m>> \in DOMAIN tbl THEN tbl ELSE tbl @@ (<<userId, m>> :> ZeroUsage)

countKey(type) ==
  IF type = "aiRespond" THEN "ai_respond_count"
  ELSE IF type = "aiImprove" THEN "ai_improve_count"
  ELSE "transcribe_count"

\* UPDATE usage SET <column> = <column> + 1 WHERE user_id = ? AND month = ?
incrementCount(tbl, userId, m, type) ==
  [k \in DOMAIN tbl |->
     IF k = <<userId, m>>
     THEN [tbl[k] EXCEPT ![countKey(type)] = @ + 1]
     ELSE tbl[k]]

\* usage.get whose SELECT lacks "AND month = ?": the user's oldest row.
usage_get_anyMonth(userId) ==
  LET m == getCurrentMonth
      t == upsertUsage(usage, userId, m)
      mine == {k \in DOMAIN t : k[1] = userId}
  IN IF userId \in DOMAIN users
     THEN [ok |-> TRUE, table |-> t,
           row |-> t[CHOOSE k \in mine : \A j \in mine : k[2] <= j[2]]]
     ELSE [ok |-> FALSE, table |-> usage, row |-> ZeroUsage]

\* usage.get(userId): the row of the current month, created on first access.
\* The insert's foreign key fails when the user row is gone.
usage_get(userId) ==
  LET m == getCurrentMonth
      t == upsertUsage(usage, userId, m)
  IN IF userId \in DOMAIN users
     THEN [ok |-> TRUE, table |-> t, row |-> t[<<userId, m>>]]
     ELSE [ok |-> FALSE, table |-> usage, row |-> ZeroUsage]

\* usage.incrementAiRespond / incrementAiImprove / incrementTranscribe:
\* the month is read again when the increment runs.
usage_increment(type, userId) ==
  LET m == getCurrentMonth
  IN IF userId \in DOMAIN users
     THEN [ok |-> TRUE, table |-> incrementCount(upsertUsage(usage, userId, m), userId, m, type)]
     ELSE [ok |-> FALSE, table |-> usage]

\* What a table holds for (user, month, type); 0 when there is no row.
Count(tbl, userId, m, type) ==
  IF <<userId, m>> \in DOMAIN tbl THEN tbl[<<userId, m>>][countKey(type)] ELSE 0

(* ------------------------------------------------------------------ *)
(* limits.ts                                                           *)
(* ------------------------------------------------------------------ *)

NoResp == [status |-> 0, limitType |-> "", current |-> 0, limit |-> 0, resetDate |-> 0]

limitError(limitType, current, limit) ==
  [status |-> 429, limitType |-> limitType, current |-> current, limit |-> limit,
   resetDate |-> getNextMonthStart]

Status(code) == [NoResp EXCEPT !.status = code]

\* checkAILimit comparing with > instead of >=.
checkAILimit_strict(user, type) ==
  LET limit == PLAN_LIMITS[user.plan][type]
      got == usage_get(user.id)
      current == got.row[countKey(type)]
  IN IF limit = Infinity
     THEN [next |-> TRUE, table |-> usage, resp |-> NoResp]
     ELSE IF current > limit
          THEN [next |-> FALSE, table |-> got.table,
                resp |-> limitError(type, current, limit)]
          ELSE [next |-> TRUE, table |-> got.table, resp |-> NoResp]

\* The middleware checkAILimit(type) for the user row read by requireAuth:
\* next = TRUE when the request goes on to the route handler.
checkAILimit(user, type) ==
  LET limit == PLAN_LIMITS[user.plan][type]
      got == usage_get(user.id)
      current == got.row[countKey(type)]
  IN IF limit = Infinity
     THEN [next |-> TRUE, table |-> usage, resp |-> NoResp]
     ELSE IF current >= limit
          THEN [next |-> FALSE, table |-> got.table,
                resp |-> limitError(type, current, limit)]
          ELSE [next |-> TRUE, table |-> got.table, resp |-> NoResp]

(* ------------------------------------------------------------------ *)
(* index.ts: the metered routes                                        *)
(* ------------------------------------------------------------------ *)

NoUser == [id |-> NULL, plan |-> "free"]

ReqIdle == [pc |-> "idle", user |-> NoUser, type |-> "aiRespond",
            clientId |-> NULL, month0 |-> NULL, resp |-> NoResp]

\* The synchronous part of a metered route, after checkAILimit called next():
\* the status it answers with, or NULL when it reaches the provider call.
routeSync(type, userId, clientId, audio) ==
  IF type = "transcribe"
  THEN IF ~env.GROQ_API_KEY THEN 503
       ELSE IF ~audio THEN 400
       ELSE NULL
  ELSE IF ~env.ANTHROPIC_API_KEY THEN 503
       ELSE IF clients_findByIdAndUser(clientId, userId) = NULL THEN 404
       ELSE NULL

\* requireAuth, checkAILimit(type) and the route up to its await, in one tick.
\* month0 records the month in which the request was received and checked.
MeteredRequest(i, u, type, clientId, audio) ==
  /\ reqs[i].pc = "idle"
  /\ \A j \in ReqIds : j < i => reqs[j].pc # "idle"
  /\ u \in DOMAIN users
  /\ LET user == [id |-> u, plan |-> users[u].plan]
         chk == checkAILimit(user, type)
         st == routeSync(type, u, clientId, audio)
         r == [pc |-> "done", user |-> user, type |-> type,
               clientId |-> IF type = "transcribe" THEN NULL ELSE clientId,
               month0 |-> month, resp |-> NoResp]
     IN /\ usage' = chk.table
        /\ reqs' = [reqs EXCEPT ![i] =
               IF ~chk.next THEN [r EXCEPT !.resp = chk.resp]
               ELSE IF st # NULL THEN [r EXCEPT !.resp = Status(st)]
               ELSE [r EXCEPT !.pc = "await"]]
  /\ UNCHANGED << users, clients, nextClientId, messages, savedResponses,
                  linkTokens, nextToken, sessions, botTasks, now, month,
                  env, authVars, botUsername, lastStart >>

\* POST /api/ai/respond
PostAiRespond(i, u, clientId) == MeteredRequest(i, u, "aiRespond", clientId, FALSE)

\* POST /api/ai/improve
PostAiImprove(i, u, clientId) == MeteredRequest(i, u, "aiImprove", clientId, FALSE)

\* POST /api/ai/transcribe
PostAiTranscribe(i, u, audio) == MeteredRequest(i, u, "transcribe", NULL, audio)

\* A route that increments before it knows how the provider call ended.
ProviderSettles_countsFailures(i, ok) ==
  /\ reqs[i].pc = "await"
  /\ LET r == reqs[i]
         inc == usage_increment(r.type, r.user.id)
     IN /\ usage' = inc.table
        /\ reqs' = [reqs EXCEPT ![i] =
               [r EXCEPT !.pc = "done",
                         !.resp = IF ok /\ inc.ok THEN Status(200) ELSE Status(500)]]
  /\ UNCHANGED << users, clients, nextClientId, messages, savedResponses,
                  linkTokens, nextToken, sessions, botTasks, now, month,
                  env, authVars, botUsername, lastStart >>

\* The provider call of a suspended metered route settles: on success the
\* route increments the counter and answers 200; a rejected call, or an
\* increment that throws, is caught and answered 500.
ProviderSettles(i, ok) ==
  /\ reqs[i].pc = "await"
  /\ LET r == reqs[i]
         inc == usage_increment(r.type, r.user.id)
     IN IF ok /\ inc.ok
        THEN /\ usage' = inc.table
             /\ reqs' = [reqs EXCEPT ![i] = [r EXCEPT !.pc = "done", !.resp = Status(200)]]
        ELSE /\ usage' = usage
             /\ reqs' = [reqs EXCEPT ![i] = [r EXCEPT !.pc = "done", !.resp = Status(500)]]
  /\ UNCHANGED << users, clients, nextClientId, messages, savedResponses,
                  linkTokens, nextToken, sessions, botTasks, now, month,
                  env, authVars, botUsername, lastStart >>

\* The calendar month changes.
MonthPasses ==
  /\ month < MaxMonth
  /\ month' = month + 1
  /\ UNCHANGED << users, clients, nextClientId, messages, savedResponses, usage,
                  linkTokens, nextToken, sessions, reqs, botTasks, now,
                  env, authVars, botUsername, lastStart >>

\* The server's clock advances by d minutes; the month key follows its local
\* calendar.
ClockTicks(d) ==
  /\ now + d <= MinutesPerMonth + MaxHours * 60
  /\ now' = now + d
  /\ month' = localMonth(now', env.TZ)
  /\ UNCHANGED << users, clients, nextClientId, messages, savedResponses, usage,
                  linkTokens, nextToken, sessions, reqs, botTasks,
                  env, authVars, botUsername, lastStart >>

(* ------------------------------------------------------------------ *)
(* index.ts and telegram.ts: linking a chat to an account              *)
(* ------------------------------------------------------------------ *)

\* bot.getMe() resolves and the bot's username becomes known.
GetMeResolves ==
  /\ botUsername = NULL
  /\ botUsername' = 1
  /\ UNCHANGED << users, clients, nextClientId, messages, savedResponses, usage,
                  linkTokens, nextToken, sessions, reqs, botTasks, now, month,
                  env, authVars, lastStart >>

\* POST /api/telegram/connect: 503 while the bot's username is unknown;
\* otherwise a fresh random token expiring in fifteen minutes is stored.
PostTelegramConnect(u) ==
  /\ u \in DOMAIN users
  /\ nextToken <= MaxTokens
  /\ IF botUsername = NULL
     THEN UNCHANGED << linkTokens, nextToken >>
     ELSE /\ linkTokens' = telegramLinkTokens_create(linkTokens, u, nextToken,
                                                     now + LinkTokenTTL)
          /\ nextToken' = nextToken + 1
  /\ UNCHANGED << users, clients, nextClientId, messages, savedResponses, usage,
                  sessions, reqs, botTasks, now, month, env, authVars, botUsername,
                  lastStart >>

\* DELETE /api/telegram/disconnect
DeleteTelegramDisconnect(u) ==
  /\ u \in DOMAIN users
  /\ users' = users_clearTelegramChat(users, u)
  /\ UNCHANGED << clients, nextClientId, messages, savedResponses, usage,
                  linkTokens, nextToken, sessions, reqs, botTasks, now, month,
                  env, authVars, botUsername, lastStart >>

\* bot.onText(/start): token = NULL is a bare /start.  lastStart keeps what
\* the handler answered: "already" / "welcome" (no token), "invalid",
\* "connected", or "threw" when the transaction's exception left the handler
\* before any answer was sent; seq alternates with every /start handled.
BotStart(chatId, token, fault) ==
  /\ LET linkToken == telegramLinkTokens_findByToken(token)
         txn == linkTransaction(token, linkToken.row.user_id, chatId, fault)
         answer(o) == [seq |-> 1 - lastStart.seq, chat |-> chatId, token |-> token,
                       fault |-> fault, outcome |-> o]
     IN IF token = NULL
        THEN /\ fault = "none"
             /\ lastStart' = answer(IF users_findByTelegramChatId(chatId) # NULL
                                    THEN "already" ELSE "welcome")
             /\ UNCHANGED << users, linkTokens >>
        ELSE IF ~linkToken.found
        THEN /\ fault = "none"
             /\ lastStart' = answer("invalid")
             /\ UNCHANGED << users, linkTokens >>
        ELSE /\ linkTokens' = txn.linkTokens
             /\ users' = txn.users
             /\ lastStart' = answer(IF txn.committed THEN "connected" ELSE "threw")
  /\ UNCHANGED << clients, nextClientId, messages, savedResponses, usage,
                  nextToken, sessions, reqs, botTasks, now, month, env, authVars,
                  botUsername >>

\* Time passes.  The clock is looked at a token lifetime later, or one
\* minute after an instant at which a stored token expires.
Tick(d) ==
  /\ d = LinkTokenTTL \/ (d = 1 /\ \E t \in DOMAIN linkTokens : linkTokens[t].expires_at = now)
  /\ now + d <= ClockStart + MaxElapsed
  /\ now' = now + d
  /\ UNCHANGED << users, clients, nextClientId, messages, savedResponses, usage,
                  linkTokens, nextToken, sessions, reqs, botTasks, month,
                  env, authVars, botUsername, lastStart >>

(* ------------------------------------------------------------------ *)
(* db.ts: writes, with the schema's foreign keys (foreign_keys = ON)   *)
(* ------------------------------------------------------------------ *)

\* A message text: typed by a person, or drafted by the provider for a client.
Typed == [by |-> "user", about |-> NULL]

DraftFor(clientId) == [by |-> "ai", about |-> clientId]

\* The provider answered with no text block: the draft is ''.
EmptyText == [by |-> "empty", about |-> NULL]

\* null
NoText == [by |-> "null", about |-> NULL]

\* A field the request body does not carry.
Undefined == "undefined"

\* INSERT INTO clients (user_id, name, notes); the row's user must exist.
\* Binding undefined throws, as does NULL for the NOT NULL column.
clients_create(userId, name) ==
  IF userId \in DOMAIN users /\ name # Undefined
  THEN [ok |-> TRUE, id |-> nextClientId,
        table |-> clients @@ (nextClientId :> [user_id |-> userId, name |-> name])]
  ELSE [ok |-> FALSE, id |-> NULL, table |-> clients]

\* INSERT INTO messages (client_id, sender, text); the row's client must
\* exist, sender passes CHECK(sender IN ('client', 'me')) and text is bound.
messages_create(clientsTbl, clientId, sender, text) ==
  LET row == [sender |-> sender, text |-> text]
  IN IF clientId \notin DOMAIN clientsTbl \/ sender \notin {"client", "me"} \/ text = NoText
     THEN [ok |-> FALSE, table |-> messages]
     ELSE [ok |-> TRUE,
           table |-> IF clientId \in DOMAIN messages
                     THEN [messages EXCEPT ![clientId] = Append(@, row)]
                     ELSE messages @@ (clientId :> << row >>)]

\* The rows of a table whose key is not in gone.
Without(tbl, gone) == [k \in DOMAIN tbl \ gone |-> tbl[k]]

\* messages.client_id REFERENCES clients(id), without ON DELETE CASCADE acting.
cascadeMessages_none(tbl, gone) == tbl

\* messages.client_id REFERENCES clients(id) ON DELETE CASCADE
cascadeMessages(tbl, gone) == Without(tbl, gone)

\* DELETE FROM clients WHERE id = ? AND user_id = ?
clients_delete(id, userId) ==
  LET gone == {c \in DOMAIN clients : c = id /\ clients[c].user_id = userId}
  IN [clients |-> Without(clients, gone),
      messages |-> cascadeMessages(messages, gone)]

\* DELETE FROM saved_responses WHERE user_id = ?, then one INSERT per response.
savedResponses_replaceAll(tbl, userId, n) ==
  IF userId \in DOMAIN tbl THEN [tbl EXCEPT ![userId] = n] ELSE tbl @@ (userId :> n)

(* ------------------------------------------------------------------ *)
(* limits.ts: client and message ceilings                              *)
(* ------------------------------------------------------------------ *)

\* checkClientLimit: next() or the 429 body.
\* checkClientLimit holding the unlimited plan to the paid plan's ceiling.
checkClientLimit_paidCeiling(user) ==
  LET limit == IF PLAN_LIMITS[user.plan].clients = Infinity
               THEN PLAN_LIMITS.paid.clients ELSE PLAN_LIMITS[user.plan].clients
      currentCount == clients_countByUser(user.id)
  IN IF currentCount >= limit
     THEN [next |-> FALSE, resp |-> limitError("clients", currentCount, limit)]
     ELSE [next |-> TRUE, resp |-> NoResp]

\* checkClientLimit answering a server error at the ceiling.
checkClientLimit_serverError(user) ==
  LET limits == PLAN_LIMITS[user.plan]
      currentCount == clients_countByUser(user.id)
  IN IF limits.clients = Infinity THEN [next |-> TRUE, resp |-> NoResp]
     ELSE IF currentCount >= limits.clients
          THEN [next |-> FALSE, resp |-> Status(500)]
          ELSE [next |-> TRUE, resp |-> NoResp]

checkClientLimit(user) ==
  LET limits == PLAN_LIMITS[user.plan]
      currentCount == clients_countByUser(user.id)
  IN IF limits.clients = Infinity THEN [next |-> TRUE, resp |-> NoResp]
     ELSE IF currentCount >= limits.clients
          THEN [next |-> FALSE, resp |-> limitError("clients", currentCount, limits.clients)]
          ELSE [next |-> TRUE, resp |-> NoResp]

\* The messages a conversation gained since the process started: a persisted
\* conversation is empty or holds a finite plan's messages-per-client ceiling.
Added(clientId) ==
  LET n == messages_countByClient(clientId)
  IN IF n >= PLAN_LIMITS.paid.messagesPerClient
     THEN n - PLAN_LIMITS.paid.messagesPerClient
     ELSE IF n >= PLAN_LIMITS.free.messagesPerClient
     THEN n - PLAN_LIMITS.free.messagesPerClient
     ELSE n

\* checkMessageLimit: next(), 404 for a client of another account, or the 429 body.
checkMessageLimit(user, clientId) ==
  LET limits == PLAN_LIMITS[user.plan]
      currentCount == messages_countByClient(clientId)
  IN IF limits.messagesPerClient = Infinity THEN [next |-> TRUE, resp |-> NoResp]
     ELSE IF clients_findByIdAndUser(clientId, user.id) = NULL
          THEN [next |-> FALSE, resp |-> Status(404)]
          ELSE IF currentCount >= limits.messagesPerClient
               THEN [next |-> FALSE,
                     resp |-> limitError("messagesPerClient", currentCount,
                                         limits.messagesPerClient)]
               ELSE [next |-> TRUE, resp |-> NoResp]

(* ------------------------------------------------------------------ *)
(* index.ts: clients, messages, settings, usage                        *)
(* ------------------------------------------------------------------ *)

\* POST /api/clients: checkClientLimit, then the insert.
PostClients(u, name) ==
  /\ u \in DOMAIN users
  /\ LET user == [id |-> u, plan |-> users[u].plan]
         chk == checkClientLimit(user)
         ins == clients_create(u, name)
     IN IF ~chk.next \/ ~ins.ok
        THEN UNCHANGED << clients, nextClientId >>
        ELSE /\ nextClientId <= MaxClientId
             /\ clients' = ins.table
             /\ nextClientId' = nextClientId + 1
  /\ UNCHANGED << users, messages, savedResponses, usage, linkTokens, nextToken,
                  sessions, reqs, botTasks, now, month, env, authVars, botUsername,
                  lastStart >>

\* DELETE /api/clients/:id
DeleteClients(u, id) ==
  /\ u \in DOMAIN users
  /\ IF clients_findByIdAndUser(id, u) = NULL
     THEN UNCHANGED << clients, messages >>
     ELSE /\ clients' = clients_delete(id, u).clients
          /\ messages' = clients_delete(id, u).messages
  /\ UNCHANGED << users, nextClientId, savedResponses, usage, linkTokens, nextToken,
                  sessions, reqs, botTasks, now, month, env, authVars, botUsername,
                  lastStart >>

\* POST /api/messages: checkMessageLimit, the ownership check, then the insert.
PostMessages(u, clientId, from, text) ==
  /\ u \in DOMAIN users
  /\ LET user == [id |-> u, plan |-> users[u].plan]
         chk == checkMessageLimit(user, clientId)
         ins == messages_create(clients, clientId, from, text)
     IN IF ~chk.next
        THEN UNCHANGED messages
        ELSE IF clients_findByIdAndUser(clientId, u) = NULL \/ ~ins.ok
        THEN UNCHANGED messages
        ELSE /\ Added(clientId) < MaxMsgs
             /\ messages' = ins.table
  /\ UNCHANGED << users, clients, nextClientId, savedResponses, usage, linkTokens,
                  nextToken, sessions, reqs, botTasks, now, month, env, authVars,
                  botUsername, lastStart >>

\* PUT /api/settings with an array of n saved responses.
PutSettings(u, n) ==
  /\ u \in DOMAIN users
  /\ savedResponses' = savedResponses_replaceAll(savedResponses, u, n)
  /\ UNCHANGED << users, clients, nextClientId, messages, usage, linkTokens,
                  nextToken, sessions, reqs, botTasks, now, month, env, authVars,
                  botUsername, lastStart >>

\* GET /api/usage: usage.get creates the month's row on first access.
GetUsage(u) ==
  /\ u \in DOMAIN users
  /\ usage' = usage_get(u).table
  /\ UNCHANGED << users, clients, nextClientId, messages, savedResponses,
                  linkTokens, nextToken, sessions, reqs, botTasks, now, month,
                  env, authVars, botUsername, lastStart >>

\* DELETE FROM users WHERE id = ? on the server's connection.  Every table that
\* references users(id), and messages through clients, declares ON DELETE CASCADE.
DeleteUser(u) ==
  /\ u \in DOMAIN users
  /\ LET gone == clients_findByUser(u)
     IN /\ users' = Without(users, {u})
        /\ clients' = Without(clients, gone)
        /\ messages' = cascadeMessages(messages, gone)
        /\ savedResponses' = Without(savedResponses, {u})
        /\ usage' = Without(usage, {k \in DOMAIN usage : k[1] = u})
        /\ linkTokens' = Without(linkTokens,
                                 {t \in DOMAIN linkTokens : linkTokens[t].user_id = u})
        /\ passwordResetTokens' =
             Without(passwordResetTokens,
                     {t \in DOMAIN passwordResetTokens :
                        passwordResetTokens[t].user_id = u})
        /\ passwordHash' = Without(passwordHash, {u})
  /\ UNCHANGED << nextClientId, nextToken, sessions, reqs, botTasks, now, month,
                  env, nextResetToken, resets, botUsername, lastStart >>

\* UPDATE clients SET name = ?, notes = ? WHERE id = ? AND user_id = ?
clients_update(id, userId, name) ==
  [c \in DOMAIN clients |->
     IF c = id /\ clients[c].user_id = userId
     THEN [clients[c] EXCEPT !.name = name]
     ELSE clients[c]]

\* PUT /api/clients/:id; a body without a name keeps the client's name.
PutClients(u, id, name) ==
  /\ u \in DOMAIN users
  /\ IF clients_findByIdAndUser(id, u) = NULL
     THEN UNCHANGED clients
     ELSE clients' = clients_update(id, u, IF name = Undefined THEN clients[id].name
                                           ELSE name)
  /\ UNCHANGED << users, nextClientId, messages, savedResponses, usage, linkTokens,
                  nextToken, sessions, reqs, botTasks, now, month, env, authVars,
                  botUsername, lastStart >>

\* GET /api/messages/:clientId reads only.
GetMessages(u, id) ==
  /\ u \in DOMAIN users
  /\ UNCHANGED vars

\* What PUT /api/clients/:id, DELETE /api/clients/:id and
\* GET /api/messages/:clientId answer.
clientRouteResp(u, id) ==
  IF clients_findByIdAndUser(id, u) = NULL THEN Status(404) ELSE Status(200)

\* What POST /api/messages answers to a well-formed body.
postMessagesResp(u, clientId) ==
  LET chk == checkMessageLimit([id |-> u, plan |-> users[u].plan], clientId)
  IN IF ~chk.next THEN chk.resp
     ELSE IF clients_findByIdAndUser(clientId, u) = NULL THEN Status(404)
     ELSE Status(200)

\* What POST /api/ai/respond and /api/ai/improve answer before the provider
\* is called; NoResp when the route reaches the call.
meteredResp(u, type, clientId) ==
  LET chk == checkAILimit([id |-> u, plan |-> users[u].plan], type)
      st == routeSync(type, u, clientId, FALSE)
  IN IF ~chk.next THEN chk.resp
     ELSE IF st # NULL THEN Status(st)
     ELSE NoResp

\* What POST /api/clients answers to a well-formed body.
postClientsResp(u) ==
  LET chk == checkClientLimit([id |-> u, plan |-> users[u].plan])
  IN IF ~chk.next THEN chk.resp ELSE Status(200)

\* What POST /api/clients answers to a body with this name: an insert that
\* throws leaves the handler and Express answers 500.
postClientsBodyResp(u, name) ==
  LET chk == checkClientLimit([id |-> u, plan |-> users[u].plan])
  IN IF ~chk.next THEN chk.resp
     ELSE IF ~clients_create(u, name).ok THEN Status(500)
     ELSE Status(200)

\* What POST /api/messages answers to a body with this sender and text.
postMessagesBodyResp(u, clientId, from, text) ==
  LET chk == checkMessageLimit([id |-> u, plan |-> users[u].plan], clientId)
  IN IF ~chk.next THEN chk.resp
     ELSE IF clients_findByIdAndUser(clientId, u) = NULL THEN Status(404)
     ELSE IF ~messages_create(clients, clientId, from, text).ok THEN Status(500)
     ELSE Status(200)

(* ------------------------------------------------------------------ *)
(* telegram.ts: sessions, findOrCreateClient and the message handlers  *)
(* ------------------------------------------------------------------ *)

\* String.prototype.toLowerCase on the names of the model.
toLowerCase(name) ==
  IF name = "Ann" THEN "ann"
  ELSE IF name = " Ann" THEN " ann"
  ELSE IF name = "Bob" THEN "bob"
  ELSE name

\* String.prototype.trim on the names of the model.
trim(name) ==
  IF name = " Ann" THEN "Ann" ELSE IF name = " ann" THEN "ann" ELSE name

NoSession == [activeClientId |-> NULL, lastDraft |-> NoText]

\* getSession(chatId): the chat's entry of the Map, created on first use.
getSession(chatId) ==
  IF chatId \in DOMAIN sessions THEN sessions ELSE sessions @@ (chatId :> NoSession)

\* requireLinkedUser(chatId): the linked user's id, or NULL after the
\* "not connected" message was sent.
requireLinkedUser(chatId) == users_findByTelegramChatId(chatId)

\* findOrCreateClient without the ceiling in front of the insert.
findOrCreateClient_unlimited(userId, name) ==
  LET userClients == clients_findByUser(userId)
      normalized == trim(toLowerCase(name))
      matches == {c \in userClients : toLowerCase(clients[c].name) = normalized}
      ins == clients_create(userId, trim(name))
  IN IF matches # {}
     THEN [threw |-> FALSE, isNew |-> FALSE, table |-> clients,
           client |-> CHOOSE c \in matches : \A d \in matches : c <= d]
     ELSE [threw |-> FALSE, isNew |-> TRUE, client |-> ins.id, table |-> ins.table]

\* findOrCreateClient(userId, name): the first client of the user whose
\* lower-cased name equals the lower-cased, trimmed name; otherwise a new
\* client, unless the user already holds the plan's number of clients.
findOrCreateClient(userId, name) ==
  LET userClients == clients_findByUser(userId)
      normalized == trim(toLowerCase(name))
      matches == {c \in userClients : toLowerCase(clients[c].name) = normalized}
      limit == PLAN_LIMITS[users[userId].plan].clients
      ins == clients_create(userId, trim(name))
  IN IF matches # {}
     THEN [threw |-> FALSE, isNew |-> FALSE, table |-> clients,
           client |-> CHOOSE c \in matches : \A d \in matches : c <= d]
     ELSE IF Cardinality(userClients) >= limit
     THEN [threw |-> TRUE, isNew |-> FALSE, client |-> NULL, table |-> clients]
     ELSE [threw |-> FALSE, isNew |-> TRUE, client |-> ins.id, table |-> ins.table]

\* A text that is not of the form "@Name: message".
NoMatch == "?"

\* bot.on('message') for a text that does not start with '/'.  An unlinked
\* chat, a text without "@Name:" and a client ceiling reached are answered
\* with a message and change nothing.
BotMessage(chatId, rawName) ==
  /\ LET user == requireLinkedUser(chatId)
         foc == findOrCreateClient(user, trim(rawName))
         ins == messages_create(foc.table, foc.client, "client", Typed)
     IN IF user = NULL \/ rawName = NoMatch
        THEN UNCHANGED << clients, nextClientId, messages, sessions >>
        ELSE IF foc.threw
        THEN UNCHANGED << clients, nextClientId, messages, sessions >>
        ELSE /\ foc.isNew => nextClientId <= MaxClientId
             /\ Added(foc.client) < MaxMsgs
             /\ clients' = foc.table
             /\ nextClientId' = IF foc.isNew THEN nextClientId + 1 ELSE nextClientId
             /\ messages' = ins.table
             /\ sessions' = [getSession(chatId) EXCEPT ![chatId] =
                               [activeClientId |-> foc.client, lastDraft |-> NoText]]
  /\ UNCHANGED << users, savedResponses, usage, linkTokens, nextToken, reqs,
                  botTasks, now, month, env, authVars, botUsername, lastStart >>

\* The message bot.on('message') sends back.  The Error findOrCreateClient
\* throws at the ceiling is caught by the handler, which sends its text:
\* "Client limit reached (<limit> clients on <plan> plan).".
botMessageReply(chatId, rawName) ==
  LET user == requireLinkedUser(chatId)
      foc == findOrCreateClient(user, trim(rawName))
      plain(text) == [text |-> text, limit |-> 0, plan |-> ""]
  IN IF user = NULL THEN plain("Not connected")
     ELSE IF rawName = NoMatch THEN plain("To log a client message use")
     ELSE IF foc.threw
     THEN [text |-> "Client limit reached",
           limit |-> PLAN_LIMITS[users[user].plan].clients,
           plan |-> users[user].plan]
     ELSE IF foc.isNew THEN plain("Created new client")
     ELSE plain("Logged for")

TaskIdle == [pc |-> "idle", kind |-> "respond", chat |-> NULL, user |-> NULL,
             client |-> NULL]

IdleTasks == {i \in TaskIds : botTasks[i].pc = "idle"}

\* /respond and /improve <draft> up to `await bot.sendMessage(...)`.
\* hasDraft: the text after /improve is not blank.  Every early return
\* answers with a message; a linked chat has its session created.
BotDraftCommand(chatId, kind, hasDraft) ==
  /\ LET user == requireLinkedUser(chatId)
         session == getSession(chatId)[chatId]
         slot == CHOOSE i \in IdleTasks : \A j \in IdleTasks : i <= j
     IN IF user = NULL
        THEN UNCHANGED << sessions, botTasks >>
        ELSE /\ sessions' = getSession(chatId)
             /\ IF \/ session.activeClientId = NULL
                   \/ ~env.ANTHROPIC_API_KEY
                   \/ ~hasDraft
                   \/ clients_findById(session.activeClientId) = NULL
                THEN UNCHANGED botTasks
                ELSE /\ IdleTasks # {}
                     /\ botTasks' = [botTasks EXCEPT ![slot] =
                           [pc |-> "sending", kind |-> kind, chat |-> chatId,
                            user |-> user, client |-> session.activeClientId]]
  /\ UNCHANGED << users, clients, nextClientId, messages, savedResponses, usage,
                  linkTokens, nextToken, reqs, now, month, env, authVars, botUsername,
                  lastStart >>

\* bot.onText(/^\/respond$/)
BotRespond(chatId) == BotDraftCommand(chatId, "respond", TRUE)

\* bot.onText(/^\/improve (.+)$/s)
BotImprove(chatId, hasDraft) == BotDraftCommand(chatId, "improve", hasDraft)

\* `await bot.sendMessage(chatId, 'Generating...')` settles.  A rejection
\* leaves the handler; otherwise the user row is read again and the provider
\* is called, which throws at once when the user row is gone ("Failed to ...").
BotSendSettles(i, ok) ==
  /\ botTasks[i].pc = "sending"
  /\ botTasks' = [botTasks EXCEPT ![i] =
        IF ok /\ botTasks[i].user \in DOMAIN users
        THEN [botTasks[i] EXCEPT !.pc = "calling"]
        ELSE TaskIdle]
  /\ UNCHANGED << users, clients, nextClientId, messages, savedResponses, usage,
                  linkTokens, nextToken, sessions, reqs, now, month, env, authVars,
                  botUsername, lastStart >>

\* `await generateResponse(...)` / `await improveMessage(...)` settles with the
\* draft, with '' when the provider's answer holds no text block, or with a
\* rejection.  A draft is kept as the session's lastDraft and sent to the chat;
\* no usage counter is read or written.
BotProviderSettles(i, outcome) ==
  /\ botTasks[i].pc = "calling"
  /\ LET t == botTasks[i]
         draft == IF outcome = "text" THEN DraftFor(t.client) ELSE EmptyText
     IN /\ botTasks' = [botTasks EXCEPT ![i] = TaskIdle]
        /\ sessions' = IF outcome = "error" THEN sessions
                       ELSE [sessions EXCEPT ![t.chat].lastDraft = draft]
  /\ UNCHANGED << users, clients, nextClientId, messages, savedResponses, usage,
                  linkTokens, nextToken, reqs, now, month, env, authVars, botUsername,
                  lastStart >>

\* bot.onText(/^\/log$/).  The insert's foreign key throws when the active
\* client's row is gone; the exception leaves the handler with the draft kept.
\* (The reply may be logged to a conversation that already gained MaxMsgs
\* messages.)
BotLog(chatId) ==
  /\ LET user == requireLinkedUser(chatId)
         session == getSession(chatId)[chatId]
         ins == messages_create(clients, session.activeClientId, "me", session.lastDraft)
     IN IF user = NULL
        THEN UNCHANGED << messages, sessions >>
        ELSE IF session.activeClientId = NULL \/ session.lastDraft \in {NoText, EmptyText}
        THEN /\ sessions' = getSession(chatId)
             /\ UNCHANGED messages
        ELSE IF ~ins.ok
        THEN UNCHANGED << messages, sessions >>
        ELSE /\ Added(session.activeClientId) <= MaxMsgs
             /\ messages' = ins.table
             /\ sessions' = [sessions EXCEPT ![chatId].lastDraft = NoText]
  /\ UNCHANGED << users, clients, nextClientId, savedResponses, usage, linkTokens,
                  nextToken, reqs, botTasks, now, month, env, authVars, botUsername,
                  lastStart >>

\* bot.onText(/^\/clients$/): lists the linked account's clients.
BotClients(chatId) == UNCHANGED vars

\* bot.onText(/^\/help$/): sends HELP_TEXT to any chat.
BotHelp(chatId) == UNCHANGED vars

\* The commands of the bot besides /start.
BotCommands == {"respond", "improve", "log", "clients", "help"}

\* The first message a command handler sends back ("" when an exception
\* leaves the handler before any message).  /help does not look the chat up.
botCommandReply(chatId, cmd) ==
  LET user == requireLinkedUser(chatId)
      session == getSession(chatId)[chatId]
  IN IF cmd = "help" THEN "Commands:"
     ELSE IF user = NULL THEN "Not connected"
     ELSE IF cmd = "clients"
     THEN IF clients_findByUser(user) = {} THEN "No clients yet" ELSE "Your clients:"
     ELSE IF cmd = "log"
     THEN IF session.activeClientId = NULL \/ session.lastDraft \in {NoText, EmptyText}
          THEN "Nothing to log"
          ELSE IF messages_create(clients, session.activeClientId, "me",
                                  session.lastDraft).ok
               THEN "Response logged as sent" ELSE ""
     ELSE IF session.activeClientId = NULL THEN "No active client"
     ELSE IF ~env.ANTHROPIC_API_KEY THEN "AI unavailable"
     ELSE IF clients_findById(session.activeClientId) = NULL
     THEN "Active client not found"
     ELSE IF cmd = "respond" THEN "Generating..." ELSE "Improving..."

(* ------------------------------------------------------------------ *)
(* db.ts, auth routes: password reset                                  *)
(* ------------------------------------------------------------------ *)

\* Minutes a reset token lives: Date.now() + 60 * 60 * 1000.
ResetTokenTTL == 60

\* The shortest password reset-password accepts.
MinPasswordLength == 8

ResetIds == 1..MaxResets

\* Passwords as typed; "" is a missing one.
Passwords == {"", "short", "password1", "password2"}

\* bcrypt.hash(password, 10): the hash stands for the password it verifies.
bcrypt_hash(password) == [hash_of |-> password]

\* DELETE FROM password_reset_tokens WHERE expires_at < datetime('now') OR used = 1
deleteExpiredTokens(tbl) ==
  LET keep == {t \in DOMAIN tbl : ~(sqlExpired(tbl[t].expires_at, now) \/ tbl[t].used)}
  IN [t \in keep |-> tbl[t]]

\* passwordResetTokens.create(userId, token, expiresAt)
passwordResetTokens_create(tbl, userId, token, expiresAt) ==
  deleteExpiredTokens(tbl)
    @@ (token :> [user_id |-> userId, expires_at |-> expiresAt, used |-> FALSE])

\* passwordResetTokens.findByToken(token): the unused row, unless
\* new Date(expires_at) < new Date().
passwordResetTokens_findByToken(token) ==
  IF token \in DOMAIN passwordResetTokens /\ ~passwordResetTokens[token].used
  THEN IF passwordResetTokens[token].expires_at < now
       THEN [found |-> FALSE, row |-> NoToken]
       ELSE [found |-> TRUE, row |-> passwordResetTokens[token]]
  ELSE [found |-> FALSE, row |-> NoToken]

\* UPDATE password_reset_tokens SET used = 1 WHERE token = ?
passwordResetTokens_markUsed(tbl, token) ==
  [t \in DOMAIN tbl |-> IF t = token THEN [tbl[t] EXCEPT !.used = TRUE] ELSE tbl[t]]

\* UPDATE users SET password_hash = ? WHERE id = ?
users_updatePassword(tbl, id, hash) ==
  [u \in DOMAIN tbl |-> IF u = id THEN hash ELSE tbl[u]]

NoResetResp == [status |-> 0, error |-> "none"]

ResetIdle == [pc |-> "idle", token |-> NULL, user |-> NULL, newPassword |-> "",
              resp |-> NoResetResp]

ResetAnswer(token, status, error) ==
  [pc |-> "done", token |-> token, user |-> NULL, newPassword |-> "",
   resp |-> [status |-> status, error |-> error]]

\* POST /api/auth/forgot-password for the e-mail address of account u (NULL:
\* an address no account has).  The token is stored before the mail is sent.
PostForgotPassword(u) ==
  /\ nextResetToken <= MaxTokens
  /\ IF u \notin DOMAIN users
        THEN UNCHANGED << passwordResetTokens, nextResetToken >>
        ELSE /\ passwordResetTokens' =
                  passwordResetTokens_create(passwordResetTokens, u, nextResetToken,
                                             now + ResetTokenTTL)
             /\ nextResetToken' = nextResetToken + 1
  /\ UNCHANGED << users, clients, nextClientId, messages, savedResponses, usage,
                  linkTokens, nextToken, sessions, reqs, botTasks, now, month,
                  env, botUsername, lastStart, passwordHash, resets >>

\* POST /api/auth/reset-password up to "await bcrypt.hash(newPassword, 10)":
\* the body is validated and the token and its account are looked up.
PostResetPassword(i, token, newPassword) ==
  /\ resets[i].pc = "idle"
  /\ LET resetToken == passwordResetTokens_findByToken(token)
     IN resets' = [resets EXCEPT ![i] =
          IF token = NULL \/ newPassword = ""
          THEN ResetAnswer(token, 400, "Token and new password are required")
          ELSE IF Len(newPassword) < MinPasswordLength
          THEN ResetAnswer(token, 400, "Password must be at least 8 characters")
          ELSE IF ~resetToken.found
          THEN ResetAnswer(token, 400, "Invalid or expired reset token")
          ELSE IF resetToken.row.user_id \notin DOMAIN users
          THEN ResetAnswer(token, 400, "User not found")
          ELSE [pc |-> "hashing", token |-> token, user |-> resetToken.row.user_id,
                newPassword |-> newPassword, resp |-> NoResetResp]]
  /\ UNCHANGED << users, clients, nextClientId, messages, savedResponses, usage,
                  linkTokens, nextToken, sessions, reqs, botTasks, now, month,
                  env, botUsername, lastStart,
                  passwordResetTokens, nextResetToken, passwordHash >>

\* bcrypt.hash settles: the handler resumes, stores the hash, marks the token
\* used and answers; a rejected hash is answered 500.
BcryptSettles(i, ok) ==
  /\ resets[i].pc = "hashing"
  /\ IF ok
        THEN /\ passwordHash' = users_updatePassword(passwordHash, resets[i].user,
                                                     bcrypt_hash(resets[i].newPassword))
             /\ passwordResetTokens' =
                  passwordResetTokens_markUsed(passwordResetTokens, resets[i].token)
             /\ resets' = [resets EXCEPT ![i] = ResetAnswer(resets[i].token, 200, "none")]
        ELSE /\ UNCHANGED << passwordHash, passwordResetTokens >>
             /\ resets' = [resets EXCEPT ![i] =
                  ResetAnswer(resets[i].token, 500, "Failed to reset password")]
  /\ UNCHANGED << users, clients, nextClientId, messages, savedResponses, usage,
                  linkTokens, nextToken, sessions, reqs, botTasks, now, month,
                  env, botUsername, lastStart, nextResetToken >>

\* More than a reset token's lifetime passes.
ResetClockTicks ==
  /\ now + ResetTokenTTL + 1 <= ClockStart + MaxHours * ResetTokenTTL
  /\ now' = now + ResetTokenTTL + 1
  /\ UNCHANGED << users, clients, nextClientId, messages, savedResponses, usage,
                  linkTokens, nextToken, sessions, reqs, botTasks, month,
                  env, authVars, botUsername, lastStart >>

\* No reset was requested yet; every account has the password it registered with.
InitAuth ==
  /\ passwordResetTokens = << >>
  /\ nextResetToken = 1
  /\ passwordHash = [u \in UserIds |-> bcrypt_hash("registered")]
  /\ resets = [i \in ResetIds |-> ResetIdle]

(* ------------------------------------------------------------------ *)
(* Initial states: a process started on a persisted database           *)
(* ------------------------------------------------------------------ *)

\* A persisted usage row whose counters are k below the plan's ceilings.
SeedRow(plan, k) ==
  [ai_respond_count |-> PLAN_LIMITS[plan].aiRespond - k,
   ai_improve_count |-> PLAN_LIMITS[plan].aiImprove - k,
   transcribe_count |-> PLAN_LIMITS[plan].transcribe - k]

\* Usage tables of the first month: per user no row, or a row near the ceiling.
SeedUsage(plans) ==
  LET Choice(u) == IF plans[u] = "power" THEN {-1} ELSE (-1)..MaxSlack
  IN { [k \in {<<u, 1>> : u \in {v \in UserIds : c[v] >= 0}} |->
          SeedRow(plans[k[1]], c[k[1]])]
       : c \in {f \in [UserIds -> (-1)..MaxSlack] : \A u \in UserIds : f[u] \in Choice(u)} }

NoStart == [seq |-> 0, chat |-> NULL, token |-> NULL, fault |-> "none", outcome |-> "none"]

InitUsage ==
  /\ \E plans \in [UserIds -> Plans] :
       /\ users = [u \in UserIds |-> [plan |-> plans[u], telegram_chat_id |-> u]]
       /\ usage \in SeedUsage(plans)
  /\ clients = [c \in {1, 2} |-> [user_id |-> c, name |-> "Ann"]]
  /\ nextClientId = 3
  /\ messages = [c \in {1, 2} |-> << >>]
  /\ savedResponses = [u \in UserIds |-> 0]
  /\ linkTokens = << >>
  /\ nextToken = 1
  /\ sessions = << >>
  /\ reqs = [i \in ReqIds |-> ReqIdle]
  /\ botTasks = [i \in TaskIds |-> TaskIdle]
  /\ now = ClockStart
  /\ month = 1
  /\ env \in [ANTHROPIC_API_KEY : BOOLEAN, GROQ_API_KEY : BOOLEAN, TZ : {0}]
  /\ botUsername = NULL
  /\ lastStart = NoStart
  /\ InitAuth

NextUsage ==
  \/ \E i \in ReqIds, u \in UserIds, c \in DOMAIN clients : PostAiRespond(i, u, c)
  \/ \E i \in ReqIds, u \in UserIds, c \in DOMAIN clients : PostAiImprove(i, u, c)
  \/ \E i \in ReqIds, u \in UserIds, a \in BOOLEAN : PostAiTranscribe(i, u, a)
  \/ \E i \in ReqIds, ok \in BOOLEAN : ProviderSettles(i, ok)
  \/ MonthPasses

SpecUsage == InitUsage /\ [][NextUsage]_vars

\* Calendar: the clock starts within MaxHours of the boundary between the
\* first and the second UTC month, in any of the time zones.
InitCalendar ==
  /\ \E plans \in [UserIds -> Plans] :
       /\ users = [u \in UserIds |-> [plan |-> plans[u], telegram_chat_id |-> NULL]]
       /\ usage \in SeedUsage(plans)
  /\ clients = [c \in {1, 2} |-> [user_id |-> c, name |-> "Ann"]]
  /\ nextClientId = 3
  /\ messages = [c \in {1, 2} |-> << >>]
  /\ savedResponses = [u \in UserIds |-> 0]
  /\ linkTokens = << >>
  /\ nextToken = 1
  /\ sessions = << >>
  /\ reqs = [i \in ReqIds |-> ReqIdle]
  /\ botTasks = [i \in TaskIds |-> TaskIdle]
  /\ now = MinutesPerMonth - MaxHours * 60
  /\ env \in [ANTHROPIC_API_KEY : {TRUE}, GROQ_API_KEY : {TRUE}, TZ : TimeZones]
  /\ month = localMonth(now, env.TZ)
  /\ botUsername = NULL
  /\ lastStart = NoStart
  /\ InitAuth

NextCalendar ==
  \/ \E u \in UserIds : PostAiRespond(1, u, u)
  \/ \E u \in UserIds : PostAiImprove(1, u, u)
  \/ \E u \in UserIds : PostAiTranscribe(1, u, TRUE)
  \/ \E ok \in BOOLEAN : ProviderSettles(1, ok)
  \/ \E u \in UserIds : GetUsage(u)
  \/ ClockTicks(60)

SpecCalendar == InitCalendar /\ [][NextCalendar]_vars

\* Linking: accounts without a linked chat, no token issued yet.
InitLink ==
  /\ users = [u \in UserIds |-> [plan |-> "free", telegram_chat_id |-> NULL]]
  /\ clients = << >>
  /\ nextClientId = 1
  /\ messages = << >>
  /\ savedResponses = [u \in UserIds |-> 0]
  /\ usage = << >>
  /\ linkTokens = << >>
  /\ nextToken = 1
  /\ sessions = << >>
  /\ reqs = [i \in ReqIds |-> ReqIdle]
  /\ botTasks = [i \in TaskIds |-> TaskIdle]
  /\ now = ClockStart
  /\ month = 1
  /\ env = [ANTHROPIC_API_KEY |-> TRUE, GROQ_API_KEY |-> TRUE, TZ |-> 0]
  /\ botUsername = NULL
  /\ lastStart = NoStart
  /\ InitAuth

NextLink ==
  \/ GetMeResolves
  \/ \E u \in UserIds : PostTelegramConnect(u)
  \/ \E u \in UserIds : DeleteTelegramDisconnect(u)
  \/ \E c \in ChatIds, t \in {NULL} \cup TokenIds, f \in Faults : BotStart(c, t, f)
  \/ \E d \in {1, LinkTokenTTL} : Tick(d)

SpecLink == InitLink /\ [][NextLink]_vars

\* The clients of a persisted account: one below the plan's ceiling, or a
\* single client on the unlimited plan; all named "Bob", highest id SeedTop.
SeedClients(plan) ==
  LET n == IF PLAN_LIMITS[plan].clients = Infinity THEN 1
           ELSE PLAN_LIMITS[plan].clients - 1
  IN [c \in (SeedTop - n + 1)..SeedTop |-> [user_id |-> 1, name |-> "Bob"]]

\* The store and the bot: account 1 on any plan with its chat linked, its
\* clients one below the ceiling and a link token issued before the restart;
\* account 2 on the free plan without clients.
InitStore ==
  /\ \E plan \in Plans :
       /\ users = (1 :> [plan |-> plan, telegram_chat_id |-> 1]) @@
                  (2 :> [plan |-> "free", telegram_chat_id |-> NULL])
       /\ clients = SeedClients(plan)
  /\ nextClientId = SeedTop + 1
  /\ messages = << >>
  /\ savedResponses = [u \in UserIds |-> 0]
  /\ usage = << >>
  /\ linkTokens = (1 :> [user_id |-> 1, expires_at |-> ClockStart + 1, used |-> FALSE])
  /\ nextToken = 2
  /\ sessions = << >>
  /\ reqs = [i \in ReqIds |-> ReqIdle]
  /\ botTasks = [i \in TaskIds |-> TaskIdle]
  /\ now = ClockStart
  /\ month = 1
  /\ env = [ANTHROPIC_API_KEY |-> TRUE, GROQ_API_KEY |-> TRUE, TZ |-> 0]
  /\ botUsername = NULL
  /\ lastStart = NoStart
  /\ InitAuth

\* The client ids requests name: the newest persisted client and every id a
\* run can create.
NamedIds == SeedTop..MaxClientId

\* The web form creates "Ann"; the chat types that name in lower case, names
\* a client nobody has yet, or sends a text without "@Name:".
BotNames == {"ann", "Cy", NoMatch}

NextStore ==
  \/ \E u \in UserIds : PostClients(u, "Ann")
  \/ \E u \in UserIds, c \in NamedIds : DeleteClients(u, c)
  \/ \E u \in UserIds, c \in NamedIds : PostMessages(u, c, "me", Typed)
  \/ \E u \in UserIds, n \in 0..1 : PutSettings(u, n)
  \/ \E u \in UserIds : GetUsage(u)
  \/ \E u \in UserIds : DeleteUser(u)
  \/ \E n \in BotNames : BotMessage(1, n)
  \/ BotRespond(1)
  \/ \E i \in TaskIds, ok \in BOOLEAN : BotSendSettles(i, ok)
  \/ \E i \in TaskIds, o \in {"text", "empty", "error"} : BotProviderSettles(i, o)
  \/ BotLog(1)

SpecStore == InitStore /\ [][NextStore]_vars

\* The messages of a persisted client that has used up its plan's messages.
SeedMessages(plan) ==
  LET n == PLAN_LIMITS[plan].messagesPerClient
  IN IF n = Infinity THEN << >>
     ELSE (SeedTop :> [k \in 1..n |-> [sender |-> "client", text |-> Typed]])

\* Ceilings: account 1 on any plan with its chat linked, its clients one
\* below the ceiling, its newest client's messages at the ceiling and its
\* usage row at or near the ceiling; account 2 on the free plan.
InitDenial ==
  /\ \E plan \in Plans :
       /\ users = (1 :> [plan |-> plan, telegram_chat_id |-> 1]) @@
                  (2 :> [plan |-> "free", telegram_chat_id |-> NULL])
       /\ clients = SeedClients(plan)
       /\ messages = SeedMessages(plan)
       /\ usage \in SeedUsage((1 :> plan) @@ (2 :> "free"))
  /\ nextClientId = SeedTop + 1
  /\ savedResponses = [u \in UserIds |-> 0]
  /\ linkTokens = << >>
  /\ nextToken = 1
  /\ sessions = << >>
  /\ reqs = [i \in ReqIds |-> ReqIdle]
  /\ botTasks = [i \in TaskIds |-> TaskIdle]
  /\ now = ClockStart
  /\ month = 1
  /\ env = [ANTHROPIC_API_KEY |-> TRUE, GROQ_API_KEY |-> TRUE, TZ |-> 0]
  /\ botUsername = NULL
  /\ lastStart = NoStart
  /\ InitAuth

NextDenial ==
  \/ \E u \in UserIds : PostClients(u, "Ann")
  \/ \E n \in BotNames : BotMessage(1, n)
  \/ \E u \in UserIds, c \in NamedIds : PostMessages(u, c, "me", Typed)
  \/ \E u \in UserIds : PostAiRespond(1, u, SeedTop)
  \/ \E u \in UserIds : PostAiImprove(1, u, SeedTop)
  \/ \E u \in UserIds : PostAiTranscribe(1, u, TRUE)
  \/ \E ok \in BOOLEAN : ProviderSettles(1, ok)

SpecDenial == InitDenial /\ [][NextDenial]_vars

\* The unlimited plan: account 1 on it with its chat linked, holding what an
\* account at the paid plan's ceilings holds (clients one below the ceiling,
\* the newest client's messages and the month's counters at the ceiling).
InitPower ==
  /\ users = (1 :> [plan |-> "power", telegram_chat_id |-> 1]) @@
             (2 :> [plan |-> "free", telegram_chat_id |-> NULL])
  /\ clients = SeedClients("paid")
  /\ messages = SeedMessages("paid")
  /\ usage = (<<1, 1>> :> SeedRow("paid", 0))
  /\ nextClientId = SeedTop + 1
  /\ savedResponses = [u \in UserIds |-> 0]
  /\ linkTokens = << >>
  /\ nextToken = 1
  /\ sessions = << >>
  /\ reqs = [i \in ReqIds |-> ReqIdle]
  /\ botTasks = [i \in TaskIds |-> TaskIdle]
  /\ now = ClockStart
  /\ month = 1
  /\ env = [ANTHROPIC_API_KEY |-> TRUE, GROQ_API_KEY |-> TRUE, TZ |-> 0]
  /\ botUsername = NULL
  /\ lastStart = NoStart
  /\ InitAuth

NextPower ==
  \/ \E u \in UserIds : PostClients(u, "Ann")
  \/ \E n \in BotNames : BotMessage(1, n)
  \/ \E u \in UserIds, c \in NamedIds : PostMessages(u, c, "me", Typed)
  \/ \E i \in ReqIds, u \in UserIds : PostAiRespond(i, u, SeedTop)
  \/ \E i \in ReqIds, u \in UserIds : PostAiImprove(i, u, SeedTop)
  \/ \E i \in ReqIds, u \in UserIds : PostAiTranscribe(i, u, TRUE)
  \/ \E i \in ReqIds, ok \in BOOLEAN : ProviderSettles(i, ok)
  \/ BotRespond(1)
  \/ \E i \in TaskIds, ok \in BOOLEAN : BotSendSettles(i, ok)
  \/ \E i \in TaskIds, o \in {"text", "error"} : BotProviderSettles(i, o)

SpecPower == InitPower /\ [][NextPower]_vars

\* Unbinding: both accounts linked to their chats, account 1 with one client
\* and each account with an unused link token to connect again.
InitUnbind ==
  /\ users = [u \in UserIds |-> [plan |-> "free", telegram_chat_id |-> u]]
  /\ clients = (SeedTop :> [user_id |-> 1, name |-> "Bob"])
  /\ nextClientId = SeedTop + 1
  /\ messages = << >>
  /\ savedResponses = [u \in UserIds |-> 0]
  /\ usage = << >>
  /\ linkTokens = [t \in TokenIds |->
                     [user_id |-> IF t = 1 THEN 1 ELSE 2,
                      expires_at |-> ClockStart + LinkTokenTTL, used |-> FALSE]]
  /\ nextToken = MaxTokens + 1
  /\ sessions = << >>
  /\ reqs = [i \in ReqIds |-> ReqIdle]
  /\ botTasks = [i \in TaskIds |-> TaskIdle]
  /\ now = ClockStart
  /\ month = 1
  /\ env = [ANTHROPIC_API_KEY |-> TRUE, GROQ_API_KEY |-> TRUE, TZ |-> 0]
  /\ botUsername = 1
  /\ lastStart = NoStart
  /\ InitAuth

NextUnbind ==
  \/ \E u \in UserIds : DeleteTelegramDisconnect(u)
  \/ \E c \in ChatIds, t \in {NULL} \cup TokenIds : BotStart(c, t, "none")
  \/ \E c \in ChatIds, n \in {"bob", "Cy", NoMatch} : BotMessage(c, n)
  \/ \E c \in ChatIds : BotLog(c)
  \/ \E c \in ChatIds : BotClients(c)
  \/ \E c \in ChatIds : BotHelp(c)

SpecUnbind == InitUnbind /\ [][NextUnbind]_vars

\* Binding a chat to another account: chat 1 is linked to account 1, which
\* owns client "Bob"; account 2 is not linked and holds an unused link token.
InitRebind ==
  /\ users = (1 :> [plan |-> "free", telegram_chat_id |-> 1]) @@
             (2 :> [plan |-> "free", telegram_chat_id |-> NULL])
  /\ clients = (SeedTop :> [user_id |-> 1, name |-> "Bob"])
  /\ nextClientId = SeedTop + 1
  /\ messages = << >>
  /\ savedResponses = [u \in UserIds |-> 0]
  /\ usage = << >>
  /\ linkTokens = (1 :> [user_id |-> 2, expires_at |-> ClockStart + LinkTokenTTL,
                         used |-> FALSE])
  /\ nextToken = 2
  /\ sessions = << >>
  /\ reqs = [i \in ReqIds |-> ReqIdle]
  /\ botTasks = [i \in TaskIds |-> TaskIdle]
  /\ now = ClockStart
  /\ month = 1
  /\ env = [ANTHROPIC_API_KEY |-> TRUE, GROQ_API_KEY |-> TRUE, TZ |-> 0]
  /\ botUsername = 1
  /\ lastStart = NoStart
  /\ InitAuth

NextRebind ==
  \/ \E u \in UserIds : DeleteTelegramDisconnect(u)
  \/ \E t \in {NULL, 1} : BotStart(1, t, "none")
  \/ \E n \in {"bob", "Cy", NoMatch} : BotMessage(1, n)
  \/ BotRespond(1)
  \/ \E d \in BOOLEAN : BotImprove(1, d)
  \/ \E i \in TaskIds, ok \in BOOLEAN : BotSendSettles(i, ok)
  \/ \E i \in TaskIds, o \in {"text", "empty", "error"} : BotProviderSettles(i, o)
  \/ BotLog(1)

SpecRebind == InitRebind /\ [][NextRebind]_vars

\* A conversation at its ceiling: account 1 on any plan with its chat linked
\* and one client "Bob" whose conversation holds the plan's messages-per-client
\* ceiling (none on the unlimited plan); account 2 on the free plan.
InitCeiling ==
  /\ \E plan \in Plans :
       /\ users = (1 :> [plan |-> plan, telegram_chat_id |-> 1]) @@
                  (2 :> [plan |-> "free", telegram_chat_id |-> NULL])
       /\ messages = SeedMessages(plan)
  /\ clients = (SeedTop :> [user_id |-> 1, name |-> "Bob"])
  /\ nextClientId = SeedTop + 1
  /\ savedResponses = [u \in UserIds |-> 0]
  /\ usage = << >>
  /\ linkTokens = << >>
  /\ nextToken = 1
  /\ sessions = << >>
  /\ reqs = [i \in ReqIds |-> ReqIdle]
  /\ botTasks = [i \in TaskIds |-> TaskIdle]
  /\ now = ClockStart
  /\ month = 1
  /\ env = [ANTHROPIC_API_KEY |-> TRUE, GROQ_API_KEY |-> TRUE, TZ |-> 0]
  /\ botUsername = 1
  /\ lastStart = NoStart
  /\ InitAuth

NextCeiling ==
  \/ \E u \in UserIds : PostMessages(u, SeedTop, "me", Typed)
  \/ \E n \in {"bob", "Cy", NoMatch} : BotMessage(1, n)
  \/ BotRespond(1)
  \/ \E d \in BOOLEAN : BotImprove(1, d)
  \/ \E i \in TaskIds, ok \in BOOLEAN : BotSendSettles(i, ok)
  \/ \E i \in TaskIds, o \in {"text", "empty", "error"} : BotProviderSettles(i, o)
  \/ BotLog(1)

SpecCeiling == InitCeiling /\ [][NextCeiling]_vars

\* Password reset: both accounts may ask for reset tokens; reset-password
\* requests present a token (NULL: none, or one never issued) and a password.
NextReset ==
  \/ \E u \in UserIds \cup {NULL} : PostForgotPassword(u)
  \/ \E i \in ResetIds, t \in {NULL} \cup TokenIds, p \in Passwords :
       PostResetPassword(i, t, p)
  \/ \E i \in ResetIds, ok \in BOOLEAN : BcryptSettles(i, ok)
  \/ ResetClockTicks

SpecReset == InitRebind /\ [][NextReset]_vars

\* Both entry points to the metered operations: the accounts, usage rows and
\* clients of InitUsage, every account's chat linked.
NextBridge ==
  \/ \E c \in ChatIds, n \in {"ann", NoMatch} : BotMessage(c, n)
  \/ \E c \in ChatIds : BotRespond(c)
  \/ \E c \in ChatIds, d \in BOOLEAN : BotImprove(c, d)
  \/ \E i \in TaskIds, ok \in BOOLEAN : BotSendSettles(i, ok)
  \/ \E i \in TaskIds, o \in {"text", "empty", "error"} : BotProviderSettles(i, o)
  \/ \E u \in UserIds : PostAiRespond(1, u, u)
  \/ \E ok \in BOOLEAN : ProviderSettles(1, ok)

SpecBridge == InitUsage /\ [][NextBridge]_vars

\* Ownership and naming: account 1 on any plan with its chat linked and one
\* client "Bob", account 2 on the free plan without clients; earlier clients
\* were deleted, so new ids start above SeedTop.
InitOwner ==
  /\ \E plan \in Plans :
       users = (1 :> [plan |-> plan, telegram_chat_id |-> 1]) @@
               (2 :> [plan |-> "free", telegram_chat_id |-> NULL])
  /\ clients = (SeedTop :> [user_id |-> 1, name |-> "Bob"])
  /\ nextClientId = SeedTop + 1
  /\ messages = << >>
  /\ savedResponses = [u \in UserIds |-> 0]
  /\ usage = << >>
  /\ linkTokens = << >>
  /\ nextToken = 1
  /\ sessions = << >>
  /\ reqs = [i \in ReqIds |-> ReqIdle]
  /\ botTasks = [i \in TaskIds |-> TaskIdle]
  /\ now = ClockStart
  /\ month = 1
  /\ env = [ANTHROPIC_API_KEY |-> TRUE, GROQ_API_KEY |-> TRUE, TZ |-> 0]
  /\ botUsername = NULL
  /\ lastStart = NoStart
  /\ InitAuth

NextOwner ==
  \/ \E u \in UserIds, n \in {"Ann", Undefined} : PostClients(u, n)
  \/ \E u \in UserIds, c \in NamedIds, n \in {"ann", Undefined} : PutClients(u, c, n)
  \/ \E u \in UserIds, c \in NamedIds : DeleteClients(u, c)
  \/ \E u \in UserIds, c \in NamedIds : GetMessages(u, c)
  \/ \E u \in UserIds, c \in NamedIds, f \in {"me", "other"}, t \in {Typed, NoText} :
       PostMessages(u, c, f, t)
  \/ \E u \in UserIds, c \in NamedIds : PostAiRespond(1, u, c)
  \/ \E u \in UserIds, c \in NamedIds : PostAiImprove(1, u, c)
  \/ \E ok \in BOOLEAN : ProviderSettles(1, ok)
  \/ \E n \in BotNames : BotMessage(1, n)

SpecOwner == InitOwner /\ [][NextOwner]_vars

(* ------------------------------------------------------------------ *)
(* Usage ledger: properties                                            *)
(* ------------------------------------------------------------------ *)

Ceiling(userId, type) == PLAN_LIMITS[users[userId].plan][type]

\* Request i is received (and limit-checked) in this step.
Received(i) == reqs[i].pc = "idle" /\ reqs'[i].pc # "idle"

\* The provider call of request i settles in this step.
Settled(i) == reqs[i].pc = "await" /\ reqs'[i].pc = "done"

\* C1: for an account on a plan with a finite ceiling, the stored counter of
\* a metered operation never exceeds the ceiling, however the account's
\* concurrent requests interleave (check and increment act as one step).
C1_CounterNeverExceedsCeiling ==
  \A k \in DOMAIN usage : \A t \in AITypes :
    (k[1] \in DOMAIN users /\ Ceiling(k[1], t) # Infinity)
      => usage[k][countKey(t)] <= Ceiling(k[1], t)

C5_IncrementOnlyInCheckedMonth ==
  [][\A k \in DOMAIN usage' : \A t \in AITypes :
       Count(usage', k[1], k[2], t) > Count(usage, k[1], k[2], t)
         => \E i \in ReqIds :
              /\ Settled(i)
              /\ reqs[i].user.id = k[1]
              /\ reqs[i].type = t
              /\ reqs[i].month0 = k[2]]_vars

(* ------------------------------------------------------------------ *)
(* Link tokens: properties                                             *)
(* ------------------------------------------------------------------ *)

\* A /start message is handled in this step.
StartHandled == lastStart'.seq # lastStart.seq

\* Token t is marked used in this step.
MarkedUsed(t) ==
  /\ t \in DOMAIN linkTokens /\ ~linkTokens[t].used
  /\ t \in DOMAIN linkTokens' /\ linkTokens'[t].used

\* Token t was issued and can no longer be looked up: it is used, past its
\* expiry instant, or deleted.
Dead(t) ==
  /\ t < nextToken
  /\ t \notin DOMAIN linkTokens \/ linkTokens[t].used \/ linkTokens[t].expires_at < now

\* C2: of the redemption attempts on a stored, unexpired token at most one
\* binds a chat; every other attempt finds the token used and is answered
\* as invalid.  (Attempts in which a statement fails with an I/O error are
\* left aside.)
C2_OneRedemptionOthersInvalid ==
  [][\A t \in DOMAIN linkTokens :
       (StartHandled /\ lastStart'.token = t /\ lastStart'.fault = "none"
          /\ linkTokens[t].expires_at >= now)
       => IF linkTokens[t].used
          THEN lastStart'.outcome = "invalid" /\ UNCHANGED << users, linkTokens >>
          ELSE /\ lastStart'.outcome = "connected"
               /\ MarkedUsed(t)
               /\ users'[linkTokens[t].user_id].telegram_chat_id = lastStart'.chat]_vars

\* C4: a link token is never redeemed after its expiry instant, used or
\* not: an attempt made then is answered as invalid, marks nothing used and
\* binds no chat.
C4_NoRedemptionAfterExpiry ==
  [][\A t \in DOMAIN linkTokens :
       linkTokens[t].expires_at < now
         => /\ ~MarkedUsed(t)
            /\ (StartHandled /\ lastStart'.token = t)
                 => lastStart'.outcome = "invalid" /\ UNCHANGED << users, linkTokens >>]_vars

\* C4 witness: an unused token presented sixteen minutes after issuance was
\* answered as invalid.
C4_Witness ==
  /\ lastStart.outcome = "invalid"
  /\ lastStart.token \in DOMAIN linkTokens
  /\ ~linkTokens[lastStart.token].used
  /\ now = linkTokens[lastStart.token].expires_at - LinkTokenTTL + 16

\* C6: a redemption marks its token used and binds the chat in one step or
\* does neither: a token becomes used only in a step that binds the
\* presenting chat to the token's account, a binding appears only in a step
\* that marks a token of that account used, and a redemption that throws
\* leaves both tables as they were.
C6_MarkAndBindTogether ==
  [][/\ \A t \in DOMAIN linkTokens :
          MarkedUsed(t)
            => /\ StartHandled /\ lastStart'.token = t
               /\ users'[linkTokens[t].user_id].telegram_chat_id = lastStart'.chat
     /\ \A u \in DOMAIN users :
          (u \in DOMAIN users' /\ users'[u].telegram_chat_id # NULL
             /\ users'[u].telegram_chat_id # users[u].telegram_chat_id)
            => \E t \in DOMAIN linkTokens : MarkedUsed(t) /\ linkTokens[t].user_id = u
     /\ (StartHandled /\ lastStart'.outcome = "threw")
          => UNCHANGED << users, linkTokens >>]_vars

\* C6 witness: a redemption whose second write failed (the chat is linked to
\* another account) left the token unused.
C6_Witness ==
  /\ lastStart.outcome = "threw"
  /\ lastStart.fault = "none"
  /\ lastStart.token \in DOMAIN linkTokens
  /\ ~linkTokens[lastStart.token].used
  /\ users[linkTokens[lastStart.token].user_id].telegram_chat_id # lastStart.chat

\* C7: Redeemed and Expired are terminal: once a token is used, past its
\* expiry or deleted, no later lookup of it succeeds.
C7_DeadTokenStaysDead ==
  [][\A t \in TokenIds : Dead(t) => ~telegramLinkTokens_findByToken(t)'.found]_vars

\* C7 witness: a token that was redeemed is later presented again, after an
\* unbind, and the lookup fails.
C7_Witness ==
  /\ lastStart.outcome = "invalid"
  /\ lastStart.token \in DOMAIN linkTokens
  /\ linkTokens[lastStart.token].used
  /\ linkTokens[lastStart.token].expires_at >= now
  /\ users[linkTokens[lastStart.token].user_id].telegram_chat_id = NULL

(* ------------------------------------------------------------------ *)
(* Account store: properties                                           *)
(* ------------------------------------------------------------------ *)

\* C8: no orphans in any reachable state.  Every client row belongs to an
\* existing account and every message row to an existing client; every saved
\* response, usage record and link token belongs to an existing account.  So
\* deleting an account leaves none of its rows behind, and deleting a client
\* leaves none of its messages.
C8_NoOrphans ==
  /\ \A c \in DOMAIN clients : clients[c].user_id \in DOMAIN users
  /\ \A c \in DOMAIN messages : messages[c] # << >> => c \in DOMAIN clients
  /\ \A u \in DOMAIN savedResponses : savedResponses[u] > 0 => u \in DOMAIN users
  /\ \A k \in DOMAIN usage : k[1] \in DOMAIN users
  /\ \A t \in DOMAIN linkTokens : linkTokens[t].user_id \in DOMAIN users

\* C8 witness: account 1 was deleted after its chat had named a client created
\* in this run (which logged a message for it) and held a draft for it; account
\* 2 still owns a client.
C8_Witness ==
  /\ 1 \notin DOMAIN users
  /\ 1 \in DOMAIN sessions
  /\ sessions[1].activeClientId > SeedTop
  /\ sessions[1].activeClientId \notin DOMAIN clients
  /\ sessions[1].lastDraft = DraftFor(sessions[1].activeClientId)
  /\ clients_findByUser(2) # {}

ClientCeiling(userId) == PLAN_LIMITS[users[userId].plan].clients

AtClientCeiling(userId) ==
  /\ ClientCeiling(userId) # Infinity
  /\ clients_countByUser(userId) >= ClientCeiling(userId)

\* No account on a plan with a finite client ceiling holds more clients than it.
WithinClientCeiling ==
  \A u \in DOMAIN users :
    ClientCeiling(u) # Infinity => clients_countByUser(u) <= ClientCeiling(u)

\* A chat whose account is at the ceiling still reaches each of the account's
\* clients by name: findOrCreateClient returns the client, creating nothing.
ExistingClientAddressable ==
  \A chat \in ChatIds, n \in Names :
    LET u == requireLinkedUser(chat)
        named == {c \in clients_findByUser(u) :
                    toLowerCase(clients[c].name) = trim(toLowerCase(n))}
        foc == findOrCreateClient(u, n)
    IN (u # NULL /\ AtClientCeiling(u) /\ named # {})
         => /\ ~foc.threw
            /\ ~foc.isNew
            /\ foc.client \in named
            /\ foc.table = clients

\* C9: through POST /api/clients and the bot's findOrCreateClient alike, the
\* number of clients of an account never exceeds its plan's finite ceiling; a
\* step taken while an account is at its ceiling adds no client to it; and a
\* chat at the ceiling can still address an existing client by name.
C9_ClientCeilingBothPaths ==
  /\ []WithinClientCeiling
  /\ []ExistingClientAddressable
  /\ [][\A u \in DOMAIN users :
          (AtClientCeiling(u) /\ u \in DOMAIN users')
            => clients_findByUser(u)' \subseteq clients_findByUser(u)]_vars

\* C9 witness: account 1 reached its ceiling by creating "Ann" over HTTP, and
\* at the ceiling its chat addressed that client as "@ann: ...": the message
\* was logged for it and it became the chat's active client.
C9_Witness ==
  /\ 1 \in DOMAIN users
  /\ ClientCeiling(1) # Infinity
  /\ clients_countByUser(1) = ClientCeiling(1)
  /\ nextClientId = SeedTop + 2
  /\ 1 \in DOMAIN sessions
  /\ sessions[1].activeClientId = SeedTop + 1
  /\ clients_findByIdAndUser(SeedTop + 1, 1) # NULL
  /\ clients[SeedTop + 1].name = "Ann"
  /\ messages_countByClient(SeedTop + 1) = 1
  /\ messages[SeedTop + 1][1].sender = "client"

(* ------------------------------------------------------------------ *)
(* Command bridge: properties                                          *)
(* ------------------------------------------------------------------ *)

MeteredType(kind) == IF kind = "respond" THEN "aiRespond" ELSE "aiImprove"

\* C10: a draft the bot generates for /respond or /improve is subject to the
\* account's monthly ceiling and is counted: the step that delivers it finds
\* the month's counter below the ceiling and leaves it one higher.
C10_BotDraftsMetered ==
  [][\A i \in TaskIds :
       BotProviderSettles(i, "text")
         => LET u == botTasks[i].user
                type == MeteredType(botTasks[i].kind)
            IN /\ Count(usage, u, month, type) < Ceiling(u, type)
               /\ Count(usage', u, month, type) = Count(usage, u, month, type) + 1]_vars

(* ------------------------------------------------------------------ *)
(* Ownership: properties                                               *)
(* ------------------------------------------------------------------ *)

Foreign(u, c) == c \in DOMAIN clients /\ clients[c].user_id # u

\* Ids of no client: the lowest id, never used again, and the ids requests
\* name for which no row exists (not yet created, or deleted).
MissingIds == ({1} \cup NamedIds) \ DOMAIN clients

\* Every HTTP operation that names a client answers a client of another
\* account exactly as it answers an id that does not exist, and where no limit
\* or missing provider key answers first, that answer is the generic 404.
ForeignAnsweredAsMissing ==
  \A u \in DOMAIN users, c \in DOMAIN clients, m \in MissingIds :
    Foreign(u, c) =>
      /\ clientRouteResp(u, c) = Status(404)
      /\ clientRouteResp(u, c) = clientRouteResp(u, m)
      /\ postMessagesResp(u, c) = Status(404)
      /\ postMessagesResp(u, c) = postMessagesResp(u, m)
      /\ \A type \in {"aiRespond", "aiImprove"} :
           /\ meteredResp(u, type, c) = meteredResp(u, type, m)
           /\ meteredResp(u, type, c).status \in {404, 429}

\* A step that is an HTTP operation of account u naming client c.
NamesClient(u, c) ==
  \/ \E n \in Names \cup {Undefined} : PutClients(u, c, n)
  \/ DeleteClients(u, c)
  \/ GetMessages(u, c)
  \/ \E f \in {"client", "me"} : PostMessages(u, c, f, Typed)
  \/ \E i \in ReqIds : PostAiRespond(i, u, c) \/ PostAiImprove(i, u, c)

C12_NamesUniqueIgnoringCase ==
  \A c, d \in DOMAIN clients :
    (c # d /\ clients[c].user_id = clients[d].user_id)
      => toLowerCase(clients[c].name) # toLowerCase(clients[d].name)


(* ------------------------------------------------------------------ *)
(* Properties of the calendar                                          *)
(* ------------------------------------------------------------------ *)

\* The UTC calendar month that holds the instant t.
utcMonth(t) == t \div MinutesPerMonth + 1

\* The first instant, in UTC, of the month after month m.
utcMonthEnd(m) == m * MinutesPerMonth

\* C13: every limit denial carries the plan's ceiling, the count consumed,
\* and a reset instant that is the first UTC instant of the month after the
\* UTC month whose key the check used.
C13_DenialCarriesUtcReset ==
  [][\A i \in ReqIds :
       (Received(i) /\ reqs'[i].resp.status = 429) =>
         LET r == reqs'[i]
         IN /\ r.resp.limit = Ceiling(r.user.id, r.type)
            /\ r.resp.current = Count(usage, r.user.id, r.month0, r.type)
            /\ r.month0 = utcMonth(now)
            /\ r.resp.resetDate = utcMonthEnd(r.month0)]_vars


(* ------------------------------------------------------------------ *)
(* Properties of the denials                                           *)
(* ------------------------------------------------------------------ *)

\* The answers that are not a limit denial: not found, server error, no key.
OtherErrors == {404, 500, 503}

\* Client c of account u holds its plan's number of messages.
AtMessageCeiling(u, c) ==
  /\ PLAN_LIMITS[users[u].plan].messagesPerClient # Infinity
  /\ clients_findByIdAndUser(c, u) # NULL
  /\ messages_countByClient(c) >= PLAN_LIMITS[users[u].plan].messagesPerClient

\* The chat's text "@n: ..." names no client of the linked account.
NamesNoClient(chat, n) ==
  /\ requireLinkedUser(chat) # NULL
  /\ n # NoMatch
  /\ \A c \in clients_findByUser(requireLinkedUser(chat)) :
       toLowerCase(clients[c].name) # trim(toLowerCase(n))

\* At a ceiling, creating a client over HTTP and posting a message are
\* answered 429 with the limit's type, and creating a client from the chat
\* is answered with the "Client limit reached" message.
CeilingAnsweredAsLimit ==
  /\ \A u \in DOMAIN users :
       AtClientCeiling(u)
         => /\ postClientsResp(u) = limitError("clients", clients_countByUser(u),
                                               ClientCeiling(u))
            /\ postClientsResp(u).status \notin OtherErrors
  /\ \A u \in DOMAIN users, c \in NamedIds :
       AtMessageCeiling(u, c)
         => /\ postMessagesResp(u, c).status = 429
            /\ postMessagesResp(u, c).limitType = "messagesPerClient"
            /\ postMessagesResp(u, c).status \notin OtherErrors
  /\ \A chat \in ChatIds, n \in BotNames :
       (NamesNoClient(chat, n) /\ AtClientCeiling(requireLinkedUser(chat)))
         => /\ botMessageReply(chat, n).text = "Client limit reached"
            /\ botMessageReply(chat, n).limit = ClientCeiling(requireLinkedUser(chat))
            /\ botMessageReply(chat, n).plan = users[requireLinkedUser(chat)].plan

Issued == nextToken' # nextToken

ClearIsIdempotent ==
  \A u \in DOMAIN users :
    /\ users_clearTelegramChat(users_clearTelegramChat(users, u), u)
         = users_clearTelegramChat(users, u)
    /\ users[u].telegram_chat_id = NULL => users_clearTelegramChat(users, u) = users

C17_RedeemedStrictlyBeforeExpiry ==
  [][(StartHandled /\ lastStart'.outcome = "connected")
       => LET t == lastStart'.token
          IN /\ t \in DOMAIN linkTokens
             /\ ~linkTokens[t].used
             /\ linkTokens[t].expires_at > now]_vars


(* ------------------------------------------------------------------ *)
(* Usage ledger: the rows of a month                                   *)
(* ------------------------------------------------------------------ *)

\* C18: no limit check, increment, lazy creation or usage query removes a
\* usage row or lowers one of its three counters.
C18_CountersNeverDecrease ==
  [][\A k \in DOMAIN usage :
       /\ k \in DOMAIN usage'
       /\ \A t \in AITypes : Count(usage', k[1], k[2], t) >= Count(usage, k[1], k[2], t)]_vars

\* C18 witness: a metered request received in the first month was answered
\* 200 with its counter raised to the ceiling, and the account's usage was
\* queried or checked again in the second month.
C18_Witness ==
  \E u \in DOMAIN users :
    /\ reqs[1].pc = "done" /\ reqs[1].user.id = u /\ reqs[1].month0 = 1
    /\ reqs[1].resp.status = 200
    /\ Ceiling(u, reqs[1].type) # Infinity
    /\ Count(usage, u, 1, reqs[1].type) = Ceiling(u, reqs[1].type)
    /\ month = 2
    /\ <<u, 2>> \in DOMAIN usage

\* A usage row right after its creation: zeros, or zeros with the one
\* counter raised by the increment that created it.
FreshRows ==
  {ZeroUsage} \cup {[ZeroUsage EXCEPT ![countKey(t)] = 1] : t \in AITypes}

\* C19: the row of (account, month) is created on first access in that
\* month with zero counters and is never created again or written over: rows
\* of other months stay as they are, a counter of the current row changes by
\* one increment at most, a query or check of an existing row writes nothing,
\* and the first check of a month sees zero consumed.
C19_OneRowPerMonthLazyZero ==
  [][/\ \A k \in DOMAIN usage :
          /\ k \in DOMAIN usage'
          /\ k[2] # month => usage'[k] = usage[k]
          /\ \A t \in AITypes :
               Count(usage', k[1], k[2], t) - Count(usage, k[1], k[2], t) \in {0, 1}
     /\ \A k \in DOMAIN usage' \ DOMAIN usage :
          k[1] \in DOMAIN users /\ k[2] = month /\ usage'[k] \in FreshRows
     /\ \A u \in UserIds :
          (GetUsage(u) /\ <<u, month>> \in DOMAIN usage) => usage' = usage
     /\ \A i \in ReqIds :
          Received(i) =>
            LET r == reqs'[i]
                k == <<r.user.id, month>>
            IN IF k \in DOMAIN usage THEN usage' = usage
               ELSE Ceiling(r.user.id, r.type) # Infinity
                      => /\ usage'[k] = ZeroUsage
                         /\ r.resp.status # 429]_vars

\* C19 witness: an account whose first month's counter is at the ceiling had
\* a request of the second month served: the second month's row was created
\* and counts one, the first month's row still counts the ceiling.
C19_Witness ==
  \E u \in DOMAIN users :
    /\ reqs[1].pc = "done" /\ reqs[1].user.id = u /\ reqs[1].month0 = 2
    /\ reqs[1].resp.status = 200
    /\ Ceiling(u, reqs[1].type) # Infinity
    /\ Count(usage, u, 1, reqs[1].type) = Ceiling(u, reqs[1].type)
    /\ <<u, 2>> \in DOMAIN usage
    /\ Count(usage, u, 2, reqs[1].type) = 1


(* ------------------------------------------------------------------ *)
(* Malformed input                                                     *)
(* ------------------------------------------------------------------ *)

\* C20: a client creation without a name, and a message without text or
\* with a sender other than client / me, are answered with a validation
\* error (a 4xx other than not-found and limit-exceeded), never with a
\* server error.
C20_MalformedIsValidationError ==
  \A u \in DOMAIN users :
    LET Validation == (400..499) \ {404, 429}
    IN /\ ~AtClientCeiling(u) => postClientsBodyResp(u, Undefined).status \in Validation
       /\ \A c \in clients_findByUser(u) :
            ~AtMessageCeiling(u, c)
              => /\ postMessagesBodyResp(u, c, "other", Typed).status \in Validation
                 /\ postMessagesBodyResp(u, c, "me", NoText).status \in Validation


(* ------------------------------------------------------------------ *)
(* The unlimited plan                                                  *)
(* ------------------------------------------------------------------ *)

\* No entry point answers an account on the unlimited plan with a limit
\* denial, whatever it holds.
UnlimitedNeverDenied ==
  \A u \in DOMAIN users :
    PLAN_LIMITS[users[u].plan].clients = Infinity =>
      /\ postClientsResp(u).status # 429
      /\ \A c \in ClientIds :
           /\ postMessagesResp(u, c).status # 429
           /\ meteredResp(u, "aiRespond", c).status # 429
           /\ meteredResp(u, "aiImprove", c).status # 429
      /\ checkAILimit([id |-> u, plan |-> users[u].plan], "transcribe").next
      /\ \A chat \in ChatIds, n \in Names :
           requireLinkedUser(chat) = u
             => botMessageReply(chat, n).text # "Client limit reached"

Unbound(chat) == requireLinkedUser(chat) = NULL

\* Every command and @Name message of a chat that no account holds is
\* answered with the connect-first message.
UnboundAnsweredConnectFirst ==
  \A chat \in ChatIds :
    Unbound(chat)
      => /\ \A cmd \in BotCommands : botCommandReply(chat, cmd) = "Not connected"
         /\ \A n \in Names \cup {NoMatch} :
              botMessageReply(chat, n).text = "Not connected"

\* C22: a command or @Name message from a chat that no account holds is
\* answered with the connect-first message and changes no clients, messages,
\* usage or session; from such a chat only /start with a token the lookup
\* finds changes the store.
C22_UnboundChatConnectFirst ==
  /\ []UnboundAnsweredConnectFirst
  /\ [][\A chat \in ChatIds :
            Unbound(chat) =>
              /\ (\/ \E n \in Names \cup {NoMatch} : BotMessage(chat, n)
                  \/ BotLog(chat) \/ BotClients(chat) \/ BotHelp(chat))
                   => UNCHANGED vars
              /\ \A t \in {NULL} \cup TokenIds :
                   (BotStart(chat, t, "none") /\ ~telegramLinkTokens_findByToken(t).found)
                     => UNCHANGED << users, linkTokens, clients, messages, usage >>]_vars


(* ------------------------------------------------------------------ *)
(* The bot's sessions and the owner of the active client               *)
(* ------------------------------------------------------------------ *)

\* A /respond or /improve in progress drafts from a client of the account
\* it runs for.
TaskReadsOwnClient ==
  \A i \in TaskIds :
    botTasks[i].pc # "idle" => clients_findByIdAndUser(botTasks[i].client, botTasks[i].user) # NULL

\* C23: a bot command run for an account reads and writes only that
\* account's clients: a draft is generated only from a client of the
\* account the chat is bound to, and /log appends only to such a client.
C23_BotStaysWithinAccount ==
  /\ []TaskReadsOwnClient
  /\ [][\A c \in DOMAIN messages' :
            (BotLog(1) /\ messages_countByClient(c)' > messages_countByClient(c))
              => clients_findByIdAndUser(c, requireLinkedUser(1)) # NULL]_vars


\* C24: every AI draft that /log stored is stored with the client it was
\* generated for, however @Name messages and awaited provider calls of the
\* chat interleave.
C24_DraftLoggedToItsClient ==
  \A c \in DOMAIN messages : \A k \in 1..Len(messages[c]) :
    messages[c][k].text.by = "ai" => messages[c][k].text.about = c


\* C26: whatever the interleaving, no two reset-password requests that
\* presented the same token are both answered with success.
C26_TokenResetsOnce ==
  \A i, j \in ResetIds :
    (i # j /\ resets[i].resp.status = 200 /\ resets[j].resp.status = 200)
      => resets[i].token # resets[j].token


\* C25: on a plan with a finite messages-per-client ceiling no client of the
\* account ever holds more messages than the ceiling, whether the message
\* came in by POST /api/messages, by an @Name message or by /log.
C25_MessagesWithinCeiling ==
  \A c \in DOMAIN clients :
    LET owner == clients[c].user_id
    IN (owner \in DOMAIN users
          /\ PLAN_LIMITS[users[owner].plan].messagesPerClient # Infinity)
         => messages_countByClient(c) <= PLAN_LIMITS[users[owner].plan].messagesPerClient


\* No two accounts hold the same chat identity.
OneAccountPerChat ==
  \A u, v \in DOMAIN users :
    (u # v /\ users[u].telegram_chat_id # NULL)
      => users[u].telegram_chat_id # users[v].telegram_chat_id

\* C27: a chat identity is bound to at most one account in every reachable
\* state.  A redemption presented from a chat that is bound to another
\* account changes no binding and leaves the token unused; a redemption that
\* commits makes the presenting chat the one binding of the token's account,
\* in place of whatever chat that account had, and touches no other account.
C27_ChatBoundToOneAccount ==
  /\ []OneAccountPerChat
  /\ [][\A c \in ChatIds, t \in TokenIds, f \in Faults :
          (BotStart(c, t, f) /\ telegramLinkTokens_findByToken(t).found)
            => LET owner == linkTokens[t].user_id
                   holder == users_findByTelegramChatId(c)
               IN /\ (holder # NULL /\ holder # owner)
                       => /\ UNCHANGED << users, linkTokens >>
                          /\ ~linkTokens'[t].used
                  /\ ((holder = NULL \/ holder = owner) /\ f = "none")
                       => /\ users'[owner].telegram_chat_id = c
                          /\ linkTokens'[t].used
                          /\ \A v \in DOMAIN users \ {owner} : users'[v] = users[v]]_vars

\* C27 witness: a redemption from a chat that another account holds was
\* refused, the holder keeps the chat and the token is still unused.
C27_Witness ==
  /\ lastStart.token \in DOMAIN linkTokens
  /\ lastStart.fault = "none"
  /\ lastStart.outcome = "threw"
  /\ users_findByTelegramChatId(lastStart.chat) # NULL
  /\ users_findByTelegramChatId(lastStart.chat) # linkTokens[lastStart.token].user_id
  /\ ~linkTokens[lastStart.token].used
  /\ telegramLinkTokens_findByToken(lastStart.token).found


\* The counters of a usage table, a missing row counting as zeros.
Counters(tbl) ==
  [k \in UserIds \X Months \X AITypes |-> Count(tbl, k[1], k[2], k[3])]

\* C28: a metered HTTP request changes a counter exactly when it completes
\* successfully.  Receiving a request, whether it is denied (429), finds the
\* capability unconfigured (503), names a missing client (404), lacks its
\* audio (400) or goes on to the provider, changes no counter; a provider
\* call that fails (500) changes none; a request answered 200 raises the
\* counter of its own operation, for its own account, by one and no other;
\* and no counter changes in any other step.
C28_CountedExactlyOnSuccess ==
  [][/\ \A i \in ReqIds :
          /\ Received(i) => Counters(usage') = Counters(usage)
          /\ (Settled(i) /\ reqs'[i].resp.status # 200)
               => Counters(usage') = Counters(usage)
          /\ (Settled(i) /\ reqs'[i].resp.status = 200)
               => \A k \in DOMAIN Counters(usage) :
                    Counters(usage')[k] =
                      IF k = << reqs[i].user.id, month, reqs[i].type >>
                      THEN Counters(usage)[k] + 1
                      ELSE Counters(usage)[k]
     /\ Counters(usage') # Counters(usage)
          => \E i \in ReqIds : Settled(i) /\ reqs'[i].resp.status = 200]_vars

\* C28 witness: one request was answered 200 and its counter stands above
\* zero, another was answered 500 after its provider call failed.
C28_Witness ==
  \E i, j \in ReqIds :
    /\ reqs[i].pc = "done" /\ reqs[i].resp.status = 200
    /\ Count(usage, reqs[i].user.id, month, reqs[i].type) > 0
    /\ reqs[j].pc = "done" /\ reqs[j].resp.status = 500
    /\ reqs[j].user.id # reqs[i].user.id
    /\ Count(usage, reqs[j].user.id, month, reqs[j].type) = 0


\* C29: right after a link token is issued the table holds no token that is
\* marked used and no token whose expiry instant lies before the issuance.
C29_IssuanceCollectsDeadTokens ==
  [][Issued =>
       \A t \in DOMAIN linkTokens' :
         /\ ~linkTokens'[t].used
         /\ linkTokens'[t].expires_at >= now]_vars


\* A linked chat whose session names an active client and holds an AI draft.
LogPending(chat) ==
  /\ requireLinkedUser(chat) # NULL
  /\ getSession(chat)[chat].activeClientId # NULL
  /\ getSession(chat)[chat].lastDraft.by = "ai"

\* /log of a chat with an active client and a draft is answered as logged.
PendingDraftIsLogged ==
  \A c \in ChatIds : LogPending(c) => botCommandReply(c, "log") = "Response logged as sent"

\* C30: per chat, /log appends exactly one 'me' message holding the session's
\* draft to the session's active client and clears the draft, so that a
\* second /log appends nothing; /log without an active client or a draft
\* appends nothing; an @Name message that is logged makes its client the
\* active one and discards the draft; and neither changes the session of
\* another chat.
C30_LogAppendsDraftOnce ==
  /\ []PendingDraftIsLogged
  /\ [][\A c \in ChatIds :
          LET s == getSession(c)[c]
              a == s.activeClientId
          IN /\ (BotLog(c) /\ LogPending(c) /\ a \in DOMAIN messages)
                  => /\ messages' = [messages EXCEPT ![a] =
                                       Append(@, [sender |-> "me", text |-> s.lastDraft])]
                     /\ sessions'[c] = [activeClientId |-> a, lastDraft |-> NoText]
                     /\ ~LogPending(c)'
             /\ (BotLog(c) /\ ~LogPending(c)) => messages' = messages
             /\ \A n \in Names \cup {"bob"} :
                  (BotMessage(c, n) /\ messages' # messages)
                    => /\ sessions'[c].lastDraft = NoText
                       /\ sessions'[c].activeClientId \in DOMAIN messages'
                       /\ \A k \in DOMAIN messages :
                            k # sessions'[c].activeClientId => messages'[k] = messages[k]
             /\ (BotLog(c) \/ \E n \in Names \cup {"bob"} : BotMessage(c, n))
                  => \A d \in DOMAIN sessions \ {c} : sessions'[d] = sessions[d]]_vars

====
